---- MODULE Spec2Model ----
(***************************************************************************)
(* Pricing engine of the sponsorship letter generator.                     *)
(*                                                                         *)
(* Money is a Python float in the source.  Here an amount is an integer    *)
(* number of cents.  Every price of the tables is a whole multiple of 500  *)
(* dollars, so a subtotal times 1.00, 0.90, 0.85 or 0.80 is a whole number *)
(* of dollars; the IEEE double product gives exactly that number for every *)
(* subtotal up to 400000 dollars, which is why Times is exact below.       *)
(* A multiplier is an integer number of percent.  Python's None is the     *)
(* empty tuple and a present optional value x is the tuple <<x>>.          *)
(***************************************************************************)
EXTENDS Integers, Sequences, FiniteSets, TLC

VARIABLES secrets, booth_tier, add_on_keys, event_year, discount_key,
          custom_total, amount, result, pc, calls,
          events, event_name, limit,
          threads, lists,
          rows, idx, generated_count, error_count, errors, zip_file,
          events_configs, package, session_state, now, log_file

\* the catalog of events and the arguments of a matcher call
matcherVars == <<events, event_name, limit>>
\* concurrent requests, and the list objects callers hold
requestVars == <<threads, lists>>
\* the bulk (spreadsheet) driver
bulkVars == <<rows, idx, generated_count, error_count, errors, zip_file>>
\* the configurations of a multi-meeting request and the package built from them
packageVars == <<events_configs, package>>
\* st.session_state of one browser session, and the clock datetime.now() reads
authVars == <<session_state, now>>
\* the content of the audit log file
logVars == <<log_file>>

vars == <<secrets, booth_tier, add_on_keys, event_year, discount_key,
          custom_total, amount, result, pc, calls,
          matcherVars, requestVars, bulkVars, packageVars, authVars, logVars>>

None == <<>>
Some(x) == <<x>>
Dollars(n) == n * 100

\* dict.get(key, default)
DictGet(d, key, default) == IF key \in DOMAIN d THEN d[key] ELSE default

(***************************************************************************)
(* config/pricing.py                                                       *)
(***************************************************************************)
BOOTH_TIER_LABELS ==
    [k \in {"standard_1d", "standard_2d", "platinum", "best_of", "premier", "(no booth)"} |->
        CASE k = "standard_1d" -> "Standard Booth (1-Day Event)"
          [] k = "standard_2d" -> "Standard Booth (2-Day Event)"
          [] k = "platinum" -> "Platinum Booth"
          [] k = "best_of" -> "Best of Booth"
          [] k = "premier" -> "Premier Booth"
          [] OTHER -> "(No Booth - Add-ons Only)"]

\* st.secrets when no secrets file is deployed: every section is missing
NoSecrets == [booth_prices |-> <<>>, add_ons_2025 |-> <<>>, add_ons_2026 |-> <<>>]

get_booth_prices(sec) ==
    LET prices == sec.booth_prices
    IN  [standard_1d |-> DictGet(prices, "standard_1d", Dollars(5000)),
         standard_2d |-> DictGet(prices, "standard_2d", Dollars(7500)),
         platinum    |-> DictGet(prices, "platinum", Dollars(10000)),
         best_of     |-> DictGet(prices, "best_of", Dollars(10000)),
         premier     |-> DictGet(prices, "premier", Dollars(15000))]

_get_fallback_add_ons_2025 ==
    [program_ad_full      |-> [label |-> "Program Guide Full Page Ad", price |-> Dollars(2000)],
     charging_stations    |-> [label |-> "In-Person Charging Station", price |-> Dollars(2000)],
     wifi_sponsorship     |-> [label |-> "Wi-Fi Network Sponsorship", price |-> Dollars(3000)],
     platform_banner      |-> [label |-> "Platform Banner Ad", price |-> Dollars(2000)],
     email_banner         |-> [label |-> "Email Banner Ad", price |-> Dollars(2500)],
     registration_banner  |-> [label |-> "Registration Banner Ad", price |-> Dollars(2000)],
     networking_reception |-> [label |-> "In-Person Networking Reception", price |-> Dollars(3500)],
     networking_activity  |-> [label |-> "Networking Activity / Excursion", price |-> Dollars(3500)],
     advisory_board       |-> [label |-> "Advisory Board (3-hour)", price |-> Dollars(30000)],
     non_cme_session      |-> [label |-> "Non-CME/CE Session (45 min)", price |-> Dollars(50000)]]

_get_fallback_add_ons_2026Forgotten ==
    _get_fallback_add_ons_2025

_get_fallback_add_ons_2026 ==
    [program_ad_full      |-> [label |-> "Program Guide Full Page Ad", price |-> Dollars(2000)],
     charging_stations    |-> [label |-> "In-Person Charging Station", price |-> Dollars(3000)],
     wifi_sponsorship     |-> [label |-> "Wi-Fi Network Sponsorship", price |-> Dollars(3000)],
     platform_banner      |-> [label |-> "Platform Banner Ad", price |-> Dollars(2000)],
     email_banner         |-> [label |-> "Email Banner Ad", price |-> Dollars(2500)],
     registration_banner  |-> [label |-> "Registration Banner Ad", price |-> Dollars(2000)],
     networking_reception |-> [label |-> "In-Person Networking Reception", price |-> Dollars(3500)],
     networking_activity  |-> [label |-> "Networking Activity / Excursion", price |-> Dollars(3500)],
     advisory_board       |-> [label |-> "Advisory Board (3-hour)", price |-> Dollars(30000)],
     non_cme_session      |-> [label |-> "Non-CME/CE Session (45 min)", price |-> Dollars(50000)]]

\* the converted secrets section, or the fallback table when it is empty
get_add_ons_2025(sec) ==
    LET addons == sec.add_ons_2025
        converted == [k \in DOMAIN addons |-> [label |-> addons[k].label, price |-> addons[k].price]]
    IN  IF DOMAIN converted # {} THEN converted ELSE _get_fallback_add_ons_2025

get_add_ons_2026(sec) ==
    LET addons == sec.add_ons_2026
        converted == [k \in DOMAIN addons |-> [label |-> addons[k].label, price |-> addons[k].price]]
    IN  IF DOMAIN converted # {} THEN converted ELSE _get_fallback_add_ons_2026

get_add_ons_pricingFrom2026On(sec, year) ==
    IF year >= 2026 THEN get_add_ons_2026(sec) ELSE get_add_ons_2025(sec)

get_add_ons_pricing(sec, year) ==
    IF year = 2026 THEN get_add_ons_2026(sec) ELSE get_add_ons_2025(sec)

DISCOUNT_OPTIONSNoneIsTen ==
    [none     |-> [label |-> "No Discount (0%)", multiplier |-> Some(90)],
     minus_10 |-> [label |-> "10% Discount", multiplier |-> Some(90)],
     minus_15 |-> [label |-> "15% Discount", multiplier |-> Some(85)],
     minus_20 |-> [label |-> "20% Discount", multiplier |-> Some(80)],
     custom   |-> [label |-> "Custom Total Override", multiplier |-> None]]

DISCOUNT_OPTIONS ==
    [none     |-> [label |-> "No Discount (0%)", multiplier |-> Some(100)],
     minus_10 |-> [label |-> "10% Discount", multiplier |-> Some(90)],
     minus_15 |-> [label |-> "15% Discount", multiplier |-> Some(85)],
     minus_20 |-> [label |-> "20% Discount", multiplier |-> Some(80)],
     custom   |-> [label |-> "Custom Total Override", multiplier |-> None]]

\* DISCOUNT_OPTIONS.get(discount_key, {}).get("multiplier")
get_discount_multiplier(key) ==
    IF key \in DOMAIN DISCOUNT_OPTIONS THEN DISCOUNT_OPTIONS[key].multiplier ELSE None

\* Python's round(): n/d rounded to the nearest integer, a tie to the even one
RoundHalfEven(n, d) ==
    LET fl == n \div d
        r  == n % d
    IN  IF 2 * r < d THEN fl
        ELSE IF 2 * r > d THEN fl + 1
        ELSE IF fl % 2 = 0 THEN fl ELSE fl + 1

RoundHalfUp(n, d) ==
    LET fl == n \div d
        r  == n % d
    IN  IF 2 * r < d THEN fl ELSE fl + 1

round_nearest_50HalfUp(a) == RoundHalfUp(a, Dollars(50)) * Dollars(50)

\* round(amount / 50.0) * 50.0
round_nearest_50(a) == RoundHalfEven(a, Dollars(50)) * Dollars(50)

(***************************************************************************)
(* core/pricing_calc.py                                                    *)
(***************************************************************************)
\* subtotal * discount_multiplier, multiplier in percent
Times(a, pct) == (a * pct) \div 100

OrOneNoneIsFree(m) == IF m = None \/ m = Some(0) THEN 0 ELSE m[1]

\* x or 1.0 for an optional multiplier x: None and 0.0 are falsy
OrOne(m) == IF m = None \/ m = Some(0) THEN 100 ELSE m[1]

RECURSIVE AddOnsTotalStopAtUnknown(_, _)
AddOnsTotalStopAtUnknown(add_ons_pricing, keys) ==
    IF keys = <<>> THEN 0
    ELSE IF Head(keys) \in DOMAIN add_ons_pricing
         THEN add_ons_pricing[Head(keys)].price + AddOnsTotalStopAtUnknown(add_ons_pricing, Tail(keys))
         ELSE 0

\* sum(add_ons_pricing[key]["price"] for key in add_on_keys if key in add_ons_pricing)
RECURSIVE AddOnsTotal(_, _)
AddOnsTotal(add_ons_pricing, keys) ==
    IF keys = <<>> THEN 0
    ELSE (IF Head(keys) \in DOMAIN add_ons_pricing
          THEN add_ons_pricing[Head(keys)].price ELSE 0)
         + AddOnsTotal(add_ons_pricing, Tail(keys))

ApplyDiscountTruthy(subtotal, dkey, ctotal) ==
    IF dkey = "custom" /\ ctotal # None /\ ctotal # Some(0)
    THEN [final_total |-> ctotal[1], discount_multiplier |-> 0,
          discount_amount |-> subtotal - ctotal[1]]
    ELSE LET discount_multiplier == OrOne(get_discount_multiplier(dkey))
             discounted == Times(subtotal, discount_multiplier)
         IN  [final_total |-> discounted, discount_multiplier |-> discount_multiplier,
              discount_amount |-> subtotal - discounted]

ApplyDiscountAmountFromMultiplier(subtotal, dkey, ctotal) ==
    IF dkey = "custom" /\ ctotal # None
    THEN [final_total |-> ctotal[1], discount_multiplier |-> 0,
          discount_amount |-> subtotal - Times(subtotal, 0)]
    ELSE LET discount_multiplier == OrOne(get_discount_multiplier(dkey))
             discounted == Times(subtotal, discount_multiplier)
         IN  [final_total |-> discounted, discount_multiplier |-> discount_multiplier,
              discount_amount |-> subtotal - Times(subtotal, discount_multiplier)]

ApplyDiscountRoundedFirst(subtotal, dkey, ctotal) ==
    IF dkey = "custom" /\ ctotal # None
    THEN [final_total |-> ctotal[1], discount_multiplier |-> 0,
          discount_amount |-> subtotal - ctotal[1]]
    ELSE LET discount_multiplier == OrOne(get_discount_multiplier(dkey))
             discounted == round_nearest_50(Times(subtotal, discount_multiplier))
         IN  [final_total |-> discounted, discount_multiplier |-> discount_multiplier,
              discount_amount |-> subtotal - discounted]

\* the "Apply discount" branch of calculate_pricing
ApplyDiscount(subtotal, dkey, ctotal) ==
    IF dkey = "custom" /\ ctotal # None
    THEN [final_total |-> ctotal[1], discount_multiplier |-> 0,
          discount_amount |-> subtotal - ctotal[1]]
    ELSE LET discount_multiplier == OrOne(get_discount_multiplier(dkey))
             discounted == Times(subtotal, discount_multiplier)
         IN  [final_total |-> discounted, discount_multiplier |-> discount_multiplier,
              discount_amount |-> subtotal - discounted]

calculate_pricing(sec, btier, keys, year, dkey, ctotal) ==
    LET booth_prices == get_booth_prices(sec)
        add_ons_pricing == get_add_ons_pricing(sec, year)
        booth_price == IF btier = "(no booth)" THEN 0
                       ELSE DictGet(booth_prices, btier, 0)
        add_ons_total == AddOnsTotal(add_ons_pricing, keys)
        subtotal == booth_price + add_ons_total
        d == ApplyDiscount(subtotal, dkey, ctotal)
        rounded_total == round_nearest_50(d.final_total)
    IN  [booth_tier |-> btier,
         booth_price |-> booth_price,
         add_on_keys |-> keys,
         add_ons_total |-> add_ons_total,
         subtotal |-> subtotal,
         discount_key |-> dkey,
         discount_multiplier |-> d.discount_multiplier,
         discount_amount |-> d.discount_amount,
         final_total |-> d.final_total,
         rounded_total |-> rounded_total]

\* lines 48-91 of calculate_pricing, for a request that has read its two
\* tables (lines 45 and 46) in earlier steps
PricingFromTables(booth_prices, add_ons_pricing, btier, keys, dkey, ctotal) ==
    LET booth_price == IF btier = "(no booth)" THEN 0
                       ELSE DictGet(booth_prices, btier, 0)
        add_ons_total == AddOnsTotal(add_ons_pricing, keys)
        subtotal == booth_price + add_ons_total
        d == ApplyDiscount(subtotal, dkey, ctotal)
        rounded_total == round_nearest_50(d.final_total)
    IN  [booth_tier |-> btier,
         booth_price |-> booth_price,
         add_on_keys |-> keys,
         add_ons_total |-> add_ons_total,
         subtotal |-> subtotal,
         discount_key |-> dkey,
         discount_multiplier |-> d.discount_multiplier,
         discount_amount |-> d.discount_amount,
         final_total |-> d.final_total,
         rounded_total |-> rounded_total]

(***************************************************************************)
(* Strings.  A Python str is the sequence of its characters; a character   *)
(* is a one-character string, the three non-ASCII dashes are named.        *)
(***************************************************************************)
EN_DASH == "en-dash"
EM_DASH == "em-dash"
MINUS_SIGN == "minus-sign"

UpperToLower ==
    [c \in {"A","B","C","D","E","F","G","H","I","J","K","L","M",
            "N","O","P","Q","R","S","T","U","V","W","X","Y","Z"} |->
        CASE c = "A" -> "a" [] c = "B" -> "b" [] c = "C" -> "c" [] c = "D" -> "d"
          [] c = "E" -> "e" [] c = "F" -> "f" [] c = "G" -> "g" [] c = "H" -> "h"
          [] c = "I" -> "i" [] c = "J" -> "j" [] c = "K" -> "k" [] c = "L" -> "l"
          [] c = "M" -> "m" [] c = "N" -> "n" [] c = "O" -> "o" [] c = "P" -> "p"
          [] c = "Q" -> "q" [] c = "R" -> "r" [] c = "S" -> "s" [] c = "T" -> "t"
          [] c = "U" -> "u" [] c = "V" -> "v" [] c = "W" -> "w" [] c = "X" -> "x"
          [] c = "Y" -> "y" [] OTHER -> "z"]

\* str.lower()
Lower(s) == [i \in 1..Len(s) |-> IF s[i] \in DOMAIN UpperToLower THEN UpperToLower[s[i]] ELSE s[i]]

\* the characters str.split() and str.strip() treat as white space
Whitespace == {" ", "\t", "\n", "\r"}

\* a in b, for strings
In(a, b) ==
    \E i \in 0..(Len(b) - Len(a)) : \A j \in 1..Len(a) : b[i + j] = a[j]

\* the least position at or after i where the string a occurs in b, 0 if none
Find(a, b, i) ==
    LET at == {k \in i..(Len(b) - Len(a) + 1) : \A j \in 1..Len(a) : b[k + j - 1] = a[j]}
    IN  IF at = {} THEN 0 ELSE CHOOSE k \in at : \A l \in at : k <= l

\* str.replace(old, new), old not empty: the occurrences are taken left to
\* right, each search starting after the previous occurrence
RECURSIVE Replace(_, _, _)
Replace(s, old, new) ==
    LET k == Find(old, s, 1)
    IN  IF k = 0 THEN s
        ELSE SubSeq(s, 1, k - 1) \o new
             \o Replace(SubSeq(s, k + Len(old), Len(s)), old, new)

\* str.split(): the maximal runs of characters that are not white space
RECURSIVE Split(_)
Split(s) ==
    LET starts == {i \in 1..Len(s) : s[i] \notin Whitespace}
    IN  IF starts = {} THEN <<>>
        ELSE LET first == CHOOSE i \in starts : \A j \in starts : i <= j
                 stops == {i \in first..Len(s) : s[i] \in Whitespace}
                 stop == IF stops = {} THEN Len(s) + 1
                         ELSE CHOOSE i \in stops : \A j \in stops : i <= j
             IN  <<SubSeq(s, first, stop - 1)>> \o Split(SubSeq(s, stop, Len(s)))

\* " ".join(words)
RECURSIVE Join(_)
Join(words) ==
    IF words = <<>> THEN <<>>
    ELSE IF Len(words) = 1 THEN words[1]
    ELSE words[1] \o <<" ">> \o Join(Tail(words))

\* str.strip()
Strip(s) ==
    LET keep == {i \in 1..Len(s) : s[i] \notin Whitespace}
    IN  IF keep = {} THEN <<>>
        ELSE SubSeq(s, CHOOSE i \in keep : \A j \in keep : i <= j,
                       CHOOSE i \in keep : \A j \in keep : i >= j)

\* set(words)
WordSet(words) == {words[i] : i \in 1..Len(words)}

(***************************************************************************)
(* config/events.py                                                        *)
(***************************************************************************)
EVENTS_2025 == <<
    [meeting_name |-> <<"2","0","2","5"," ","A","s","t","e","r","a"," ","C","a","n","c","e","r"," ","C","a","r","e"," ","A","n","n","u","a","l"," ","R","e","t","r","e","a","t">>,
     meeting_date_long |-> "September 27, 2025", venue |-> "Ocean Place Resort and Spa",
     city_state |-> "Long Branch, NJ", default_tier |-> "standard_1d",
     expected_attendance |-> None],
    [meeting_name |-> <<"2","0","2","5"," ","C","a","n","c","e","r"," ","U","p","d","a","t","e","s"," ","G","U"," ","a","n","d"," ","L","u","n","g",","," ","M","e","m","p","h","i","s",","," ","T","N">>,
     meeting_date_long |-> "September 30, 2025", venue |-> "Hilton Memphis",
     city_state |-> "Memphis, TN", default_tier |-> "standard_1d",
     expected_attendance |-> None],
    [meeting_name |-> <<"2","0","2","5"," ","W","e","s","t"," ","O","n","c","o","l","o","g","y"," ","A","P","P"," ","D","i","n","n","e","r">>,
     meeting_date_long |-> "October 9, 2025", venue |-> "Hilton Memphis",
     city_state |-> "Memphis, TN", default_tier |-> "standard_1d",
     expected_attendance |-> None],
    [meeting_name |-> <<"2","0","2","5"," ","E","m","p","o","w","e","r"," ","(","P","a","t","i","e","n","t"," ","M","e","e","t","i","n","g",")">>,
     meeting_date_long |-> "October 11, 2025", venue |-> "Farmer's Table",
     city_state |-> "Boca Raton, FL", default_tier |-> "standard_1d",
     expected_attendance |-> None],
    [meeting_name |-> <<"2","0","2","5"," ","N","o","r","t","h","w","e","l","l"," ","H","e","a","l","t","h"," ","S","e","c","o","n","d"," ","A","n","n","u","a","l"," ","L","i","v","e","r"," ","C","a","n","c","e","r"," ","S","y","m","p","o","s","i","u","m">>,
     meeting_date_long |-> "October 17, 2025", venue |-> "The Garden City Hotel",
     city_state |-> "Garden City, NY", default_tier |-> "standard_1d",
     expected_attendance |-> None],
    [meeting_name |-> <<"2","0","2","5"," ","C","a","n","c","e","r"," ","U","p","d","a","t","e","s"," ","G","I"," ","a","n","d"," ","B","r","e","a","s","t",","," ","B","o","s","t","o","n",","," ","M","A">>,
     meeting_date_long |-> "October 30, 2025", venue |-> "Battery Wharf Hotel Boston Waterfront",
     city_state |-> "Boston, MA", default_tier |-> "standard_1d",
     expected_attendance |-> None],
    [meeting_name |-> <<"2","0","2","5"," ","E","S","M","O"," ","U","S","A"," ","W","e","s","t">>,
     meeting_date_long |-> "November 1\\u20132, 2025", venue |-> "The Antlers",
     city_state |-> "Colorado Springs, CO", default_tier |-> "standard_2d",
     expected_attendance |-> None],
    [meeting_name |-> <<"2","0","2","5"," ","E","S","M","O"," ","U","S","A"," ","E","a","s","t">>,
     meeting_date_long |-> "November 1\\u20132, 2025", venue |-> "The Ritz-Carlton Orlando",
     city_state |-> "Orlando, FL", default_tier |-> "standard_2d",
     expected_attendance |-> None],
    [meeting_name |-> <<"2","0","2","5"," ","N","o","r","t","h","w","e","l","l"," ","H","e","a","l","t","h"," ","M","u","l","t","i","d","i","s","c","i","p","l","i","n","a","r","y"," ","H","e","a","d"," ","a","n","d"," ","N","e","c","k"," ","C","a","n","c","e","r"," ","S","y","m","p","o","s","i","u","m">>,
     meeting_date_long |-> "November 1, 2025", venue |-> "The Garden City Hotel",
     city_state |-> "Garden City, NY", default_tier |-> "standard_1d",
     expected_attendance |-> None],
    [meeting_name |-> <<"2","0","2","5"," ","C","a","n","c","e","r"," ","U","p","d","a","t","e","s"," ","H","e","m","e"," ","a","n","d"," ","G","U",","," ","D","e","n","v","e","r",","," ","C","O">>,
     meeting_date_long |-> "December 4, 2025", venue |-> "Denver Marriott Westminster",
     city_state |-> "Denver, CO", default_tier |-> "standard_1d",
     expected_attendance |-> None],
    [meeting_name |-> <<"2","0","2","5"," ","N","o","r","t","h","w","e","l","l"," ","B","e","s","t"," ","o","f"," ","P","r","a","c","t","i","c","e"," ","I","m","p","a","c","t","i","n","g"," ","S","c","i","e","n","c","e">>,
     meeting_date_long |-> "December 5, 2025", venue |-> "The Garden City Hotel",
     city_state |-> "Garden City, NY", default_tier |-> "standard_1d",
     expected_attendance |-> None],
    [meeting_name |-> <<"2","0","2","5"," ","O","n","c","o","l","o","g","y"," ","U","p","d","a","t","e"," ","C","o","n","f","e","r","e","n","c","e"," ","p","r","e","s","e","n","t","e","d"," ","b","y"," ","H","i","g","h"," ","P","l","a","i","n","s"," ","O","n","c","o","l","o","g","y"," ","P","r","o","f","e","s","s","i","o","n","a","l","s","-","H","P","O","P">>,
     meeting_date_long |-> "December 6, 2025", venue |-> "Fort Collins Marriott",
     city_state |-> "Fort Collins, CO", default_tier |-> "standard_1d",
     expected_attendance |-> None],
    [meeting_name |-> <<"2","0","2","5"," ","(","N","o","r","t","h","w","e","l","l",")"," ","2","n","d"," ","A","n","n","u","a","l"," ","N","e","w"," ","Y","o","r","k"," ","P","a","n","c","r","e","a","t","i","c"," ","C","a","n","c","e","r"," ","C","o","n","s","o","r","t","i","u","m">>,
     meeting_date_long |-> "December 12, 2025", venue |-> "Martinique New York on Broadway",
     city_state |-> "Manhattan, NY", default_tier |-> "platinum",
     expected_attendance |-> None]>>

EVENTS_2026 == <<
    [meeting_name |-> <<"2","0","2","6"," ","B","e","s","t"," ","o","f"," ","B","r","e","a","s","t"," ","C","o","n","f","e","r","e","n","c","e">>,
     meeting_date_long |-> "January 17-18, 2026", venue |-> "Beach House Ft. Lauderdale",
     city_state |-> "Fort Lauderdale, FL", default_tier |-> "best_of",
     expected_attendance |-> Some(50)],
    [meeting_name |-> <<"2","0","2","6"," ","C","a","n","c","e","r"," ","U","p","d","a","t","e","s"," ","G","I"," ","a","n","d"," ","B","r","e","a","s","t",","," ","P","r","i","n","c","e","t","o","n",","," ","N","J">>,
     meeting_date_long |-> "January 22, 2026", venue |-> "Princeton Marriott at Forrestal",
     city_state |-> "Princeton, NJ", default_tier |-> "standard_1d",
     expected_attendance |-> Some(30)],
    [meeting_name |-> <<"2","0","2","6"," ","N","o","r","t","h","w","e","l","l"," ","C","a","n","c","e","r"," ","I","n","s","t","i","t","u","t","e"," ","F","r","o","n","t","i","e","r","s"," ","i","n"," ","C","a","n","c","e","r"," ","S","c","i","e","n","t","i","f","i","c"," ","S","y","m","p","o","s","i","u","m">>,
     meeting_date_long |-> "January 28, 2026", venue |-> "Carnegie Hall",
     city_state |-> "Manhattan, NYC", default_tier |-> "standard_1d",
     expected_attendance |-> None],
    [meeting_name |-> <<"2","0","2","6"," ","W","e","s","t"," ","O","n","c","o","l","o","g","y"," ","C","o","n","f","e","r","e","n","c","e">>,
     meeting_date_long |-> "January 31-February 1, 2026", venue |-> "Hilton Memphis",
     city_state |-> "Memphis, TN", default_tier |-> "standard_2d",
     expected_attendance |-> Some(50)],
    [meeting_name |-> <<"2","0","2","6"," ","B","e","s","t"," ","o","f"," ","H","e","m","a","t","o","l","o","g","y"," ","C","o","n","f","e","r","e","n","c","e">>,
     meeting_date_long |-> "February 7-8, 2026", venue |-> "The Hythe",
     city_state |-> "Vail, CO", default_tier |-> "best_of",
     expected_attendance |-> Some(30)],
    [meeting_name |-> <<"2","0","2","6"," ","A","S","C","O"," ","D","i","r","e","c","t"," ","G","I">>,
     meeting_date_long |-> "February 7-8, 2026", venue |-> "The Rittenhouse",
     city_state |-> "Philadelphia, PA", default_tier |-> "standard_2d",
     expected_attendance |-> Some(40)],
    [meeting_name |-> <<"2","0","2","6"," ","U","n","i","v","e","r","s","i","t","y"," ","o","f"," ","K","a","n","s","a","s"," ","C","a","n","c","e","r"," ","C","e","n","t","e","r"," ","B","r","e","a","s","t"," ","C","a","n","c","e","r"," ","Y","e","a","r"," ","i","n"," ","R","e","v","i","e","w">>,
     meeting_date_long |-> "February 21, 2026", venue |-> "Sheraton Overland Park Hotel at the Convention Center",
     city_state |-> "Kansas City, MO", default_tier |-> "standard_1d",
     expected_attendance |-> Some(75)],
    [meeting_name |-> <<"2","0","2","6"," ","C","a","n","c","e","r"," ","U","p","d","a","t","e","s"," ","G","I"," ","a","n","d"," ","B","r","e","a","s","t",","," ","D","a","l","l","a","s",","," ","T","X">>,
     meeting_date_long |-> "February 26, 2026", venue |-> "The Highland Dallas",
     city_state |-> "Dallas, TX", default_tier |-> "standard_1d",
     expected_attendance |-> Some(30)],
    [meeting_name |-> <<"2","0","2","6"," ","C","a","n","c","e","r"," ","U","p","d","a","t","e","s"," ","G","I"," ","a","n","d"," ","B","r","e","a","s","t",","," ","N","a","s","h","v","i","l","l","e",","," ","T","N">>,
     meeting_date_long |-> "March 5, 2026", venue |-> "Loews Vanderbilt Hotel",
     city_state |-> "Nashville, TN", default_tier |-> "standard_1d",
     expected_attendance |-> Some(30)],
    [meeting_name |-> <<"2","0","2","6"," ","C","a","n","c","e","r"," ","U","p","d","a","t","e","s"," ","G","I"," ","a","n","d"," ","L","u","n","g",","," ","D","e","n","v","e","r",","," ","C","O">>,
     meeting_date_long |-> "March 12, 2026", venue |-> "Denver Marriott Westminster",
     city_state |-> "Denver, CO", default_tier |-> "standard_1d",
     expected_attendance |-> Some(30)],
    [meeting_name |-> <<"2","0","2","6"," ","A","S","C","O"," ","D","i","r","e","c","t"," ","G","U">>,
     meeting_date_long |-> "March 14-15, 2026", venue |-> "The Hyatt",
     city_state |-> "Boston, MA", default_tier |-> "standard_2d",
     expected_attendance |-> Some(40)],
    [meeting_name |-> <<"2","0","2","6"," ","C","a","n","c","e","r"," ","U","p","d","a","t","e","s"," ","G","I"," ","a","n","d"," ","B","r","e","a","s","t",","," ","H","o","u","s","t","o","n">>,
     meeting_date_long |-> "April 9, 2026", venue |-> "The Blossom Hotel Houston",
     city_state |-> "Houston, TX", default_tier |-> "standard_1d",
     expected_attendance |-> Some(30)],
    [meeting_name |-> <<"2","0","2","6"," ","O","n","c","o","l","o","g","y"," ","C","l","i","n","i","c","a","l"," ","U","p","d","a","t","e","s"," ","-"," ","R","e","v","i","e","w"," ","a","n","d"," ","R","e","n","e","w"," ","S","e","d","o","n","a">>,
     meeting_date_long |-> "April 11-12, 2026", venue |-> "Hilton Sedona Resort at Bell Rock",
     city_state |-> "Sedona, AZ", default_tier |-> "standard_2d",
     expected_attendance |-> Some(30)],
    [meeting_name |-> <<"E","S","M","O"," ","U","S","A"," ","i","n"," ","F","o","c","u","s"," ","2","0","2","6",":"," ","L","u","n","g"," ","C","a","n","c","e","r"," ","a","n","d"," ","S","a","r","c","o","m","a","s"," ","-"," ","W","i","t","h"," ","J","o","h","n"," ","T","r","e","n","t"," ","a","n","d"," ","R","a","v","i"," ","S","a","l","g","i","a">>,
     meeting_date_long |-> "April 25, 2026", venue |-> "Minneapolis Marriott City Center",
     city_state |-> "Minneapolis, MN", default_tier |-> "standard_1d",
     expected_attendance |-> Some(30)],
    [meeting_name |-> <<"2","0","2","6"," ","C","a","n","c","e","r"," ","U","p","d","a","t","e","s"," ","B","r","e","a","s","t"," ","a","n","d"," ","L","u","n","g",","," ","K","a","n","s","a","s"," ","C","i","t","y">>,
     meeting_date_long |-> "May 14, 2026", venue |-> "Crossroads Hotel Kansas City",
     city_state |-> "Kansas City, MO", default_tier |-> "standard_1d",
     expected_attendance |-> Some(30)],
    [meeting_name |-> <<"E","S","M","O"," ","i","n"," ","F","o","c","u","s"," ","2","0","2","6",":"," ","B","r","e","a","s","t"," ","-"," ","E","A","S","T"," ","-"," ","W","i","t","h"," ","R","e","s","h","m","a"," ","M","a","h","t","a","n","i"," ","a","n","d"," ","K","e","v","i","n"," ","K","a","l","i","n","s","k","y">>,
     meeting_date_long |-> "May 16, 2026", venue |-> "Baltimore, MD",
     city_state |-> "Baltimore, MD", default_tier |-> "standard_1d",
     expected_attendance |-> None],
    [meeting_name |-> <<"E","S","M","O"," ","i","n"," ","F","o","c","u","s"," ","2","0","2","6",":"," ","B","r","e","a","s","t"," ","-"," ","W","E","S","T"," ","-"," ","W","i","t","h"," ","H","o","p","e"," ","R","u","g","o"," ","a","n","d"," ","S","a","r","a","h"," ","T","o","l","a","n","e","y">>,
     meeting_date_long |-> "May 16, 2026", venue |-> "Salt Lake City, UT",
     city_state |-> "Salt Lake City, UT", default_tier |-> "standard_1d",
     expected_attendance |-> None],
    [meeting_name |-> <<"2","0","2","6"," ","A","S","C","O"," ","D","i","r","e","c","t"," ","P","u","e","r","t","o"," ","R","i","c","o">>,
     meeting_date_long |-> "June 13-14, 2026", venue |-> "Hyatt Regency Grand Reserve",
     city_state |-> "San Juan, PR", default_tier |-> "standard_2d",
     expected_attendance |-> Some(60)],
    [meeting_name |-> <<"2","0","2","6"," ","A","S","C","O"," ","D","i","r","e","c","t"," ","A","u","s","t","i","n">>,
     meeting_date_long |-> "June 13-14, 2026", venue |-> "W Austin",
     city_state |-> "Austin, TX", default_tier |-> "standard_2d",
     expected_attendance |-> Some(60)],
    [meeting_name |-> <<"2","0","2","6"," ","A","S","C","O"," ","D","i","r","e","c","t"," ","L","o","s"," ","A","n","g","e","l","e","s">>,
     meeting_date_long |-> "June 13-14, 2026", venue |-> "Le Meridien",
     city_state |-> "Los Angeles, CA", default_tier |-> "standard_2d",
     expected_attendance |-> Some(50)],
    [meeting_name |-> <<"2","0","2","6"," ","A","S","C","O"," ","D","i","r","e","c","t"," ","H","a","w","a","i","i">>,
     meeting_date_long |-> "June 27-28, 2026", venue |-> "Sheraton Waikiki Beach Resort",
     city_state |-> "Honolulu, HI", default_tier |-> "standard_2d",
     expected_attendance |-> Some(100)],
    [meeting_name |-> <<"2","0","2","6"," ","A","S","C","O"," ","D","i","r","e","c","t"," ","W","a","s","h","i","n","g","t","o","n"," ","D","C">>,
     meeting_date_long |-> "June 27-28, 2026", venue |-> "Four Seasons Hotel Washington",
     city_state |-> "Washington DC", default_tier |-> "standard_2d",
     expected_attendance |-> Some(60)],
    [meeting_name |-> <<"2","0","2","6"," ","A","S","C","O"," ","D","i","r","e","c","t"," ","D","e","n","v","e","r">>,
     meeting_date_long |-> "June 27-28, 2026", venue |-> "Denver Marriott Westminster",
     city_state |-> "Denver, CO", default_tier |-> "standard_2d",
     expected_attendance |-> Some(60)],
    [meeting_name |-> <<"2","0","2","6"," ","C","a","n","c","e","r"," ","U","p","d","a","t","e","s"," ","H","e","m","e"," ","a","n","d"," ","B","r","e","a","s","t",","," ","M","i","c","h","i","g","a","n">>,
     meeting_date_long |-> "July 9, 2026", venue |-> "The Vanguard Ann Arbor, Autograph Collection",
     city_state |-> "Ann Arbor, MI", default_tier |-> "standard_1d",
     expected_attendance |-> Some(30)],
    [meeting_name |-> <<"2","0","2","6"," ","A","S","C","O"," ","D","i","r","e","c","t"," ","N","e","w"," ","O","r","l","e","a","n","s">>,
     meeting_date_long |-> "July 10-11, 2026", venue |-> "Hyatt Regency NOLA",
     city_state |-> "New Orleans, LA", default_tier |-> "standard_2d",
     expected_attendance |-> Some(30)],
    [meeting_name |-> <<"2","0","2","6"," ","A","S","C","O"," ","D","i","r","e","c","t"," ","C","h","a","r","l","o","t","t","e">>,
     meeting_date_long |-> "July 18-19, 2026", venue |-> "Grand Bohemian",
     city_state |-> "Charlotte, NC", default_tier |-> "standard_2d",
     expected_attendance |-> Some(60)],
    [meeting_name |-> <<"2","0","2","6"," ","A","S","C","O"," ","D","i","r","e","c","t"," ","P","h","i","l","a","d","e","l","p","h","i","a">>,
     meeting_date_long |-> "July 18-19, 2026", venue |-> "Rittenhouse",
     city_state |-> "Philadelphia, PA", default_tier |-> "standard_2d",
     expected_attendance |-> Some(60)],
    [meeting_name |-> <<"2","0","2","6"," ","A","S","C","O"," ","D","i","r","e","c","t"," ","A","n","c","h","o","r","a","g","e">>,
     meeting_date_long |-> "July 18-19, 2026", venue |-> "Anchorage Marriott Downtown",
     city_state |-> "Anchorage, AK", default_tier |-> "standard_2d",
     expected_attendance |-> Some(30)],
    [meeting_name |-> <<"2","0","2","6"," ","A","S","C","O"," ","D","i","r","e","c","t"," ","L","a","s"," ","V","e","g","a","s">>,
     meeting_date_long |-> "July 25-26, 2026", venue |-> "Westin Lake Las Vegas",
     city_state |-> "Henderson/Las Vegas, NV", default_tier |-> "standard_2d",
     expected_attendance |-> Some(60)],
    [meeting_name |-> <<"2","0","2","6"," ","A","S","C","O"," ","D","i","r","e","c","t"," ","I","n","d","i","a","n","a","p","o","l","i","s">>,
     meeting_date_long |-> "July 25-26, 2026", venue |-> "Indianapolis Marriott Downtown",
     city_state |-> "Indianapolis, IN", default_tier |-> "standard_2d",
     expected_attendance |-> Some(50)],
    [meeting_name |-> <<"2","0","2","6"," ","A","S","C","O"," ","D","i","r","e","c","t"," ","M","i","n","n","e","a","p","o","l","i","s">>,
     meeting_date_long |-> "August 1-2, 2026", venue |-> "Four Seasons Minneapolis",
     city_state |-> "Minneapolis, MN", default_tier |-> "standard_2d",
     expected_attendance |-> Some(50)],
    [meeting_name |-> <<"2","0","2","6"," ","A","S","C","O"," ","D","i","r","e","c","t"," ","M","a","i","n","e">>,
     meeting_date_long |-> "August 1-2, 2026", venue |-> "TBD",
     city_state |-> "Portland, ME", default_tier |-> "standard_2d",
     expected_attendance |-> Some(50)],
    [meeting_name |-> <<"2","0","2","6"," ","A","S","C","O"," ","D","i","r","e","c","t"," ","B","o","s","t","o","n">>,
     meeting_date_long |-> "August 8-9, 2026", venue |-> "Ritz Carlton Boston",
     city_state |-> "Boston, MA", default_tier |-> "standard_2d",
     expected_attendance |-> Some(50)],
    [meeting_name |-> <<"2","0","2","6"," ","A","S","C","O"," ","D","i","r","e","c","t"," ","S","e","a","t","t","l","e">>,
     meeting_date_long |-> "August 8-9, 2026", venue |-> "Hilton Motif Seattle",
     city_state |-> "Seattle, WA", default_tier |-> "standard_2d",
     expected_attendance |-> Some(50)],
    [meeting_name |-> <<"2","0","2","6"," ","A","S","C","O"," ","D","i","r","e","c","t"," ","M","e","m","p","h","i","s">>,
     meeting_date_long |-> "August 8-9, 2026", venue |-> "Hilton Memphis",
     city_state |-> "Memphis, TN", default_tier |-> "standard_2d",
     expected_attendance |-> Some(60)],
    [meeting_name |-> <<"2","0","2","6"," ","C","a","n","c","e","r"," ","U","p","d","a","t","e"," ","G","U"," ","a","n","d"," ","L","u","n","g",","," ","P","r","i","n","c","e","t","o","n",","," ","N","J">>,
     meeting_date_long |-> "August 13, 2026", venue |-> "Princeton Marriott at Forrestal",
     city_state |-> "Princeton, NJ", default_tier |-> "standard_1d",
     expected_attendance |-> Some(30)],
    [meeting_name |-> <<"2","0","2","6"," ","O","n","c","o","l","o","g","y"," ","C","l","i","n","i","c","a","l"," ","U","p","d","a","t","e","s"," ","-"," ","R","e","v","i","e","w"," ","a","n","d"," ","R","e","n","e","w"," ","M","a","r","t","h","a","'","s"," ","V","i","n","e","y","a","r","d">>,
     meeting_date_long |-> "August 15-16, 2026", venue |-> "Martha's Vineyard, MA",
     city_state |-> "Martha's Vineyard, MA", default_tier |-> "standard_2d",
     expected_attendance |-> None],
    [meeting_name |-> <<"2","0","2","6"," ","C","a","n","c","e","r"," ","U","p","d","a","t","e","s"," ","G","U"," ","a","n","d"," ","H","e","m","e",","," ","H","o","u","s","t","o","n",","," ","T","X">>,
     meeting_date_long |-> "September 10, 2026", venue |-> "The Blossom Hotel Houston",
     city_state |-> "Houston, TX", default_tier |-> "standard_1d",
     expected_attendance |-> Some(30)],
    [meeting_name |-> <<"2","0","2","6"," ","M","D","O","N","S"," ","C","o","n","f","e","r","e","n","c","e">>,
     meeting_date_long |-> "September 18, 2026", venue |-> "The Westin Westminster",
     city_state |-> "Denver, CO", default_tier |-> "standard_1d",
     expected_attendance |-> Some(200)],
    [meeting_name |-> <<"2","0","2","6"," ","C","a","n","c","e","r"," ","U","p","d","a","t","e","s"," ","L","u","n","g"," ","a","n","d"," ","B","r","e","a","s","t",","," ","D","a","l","l","a","s",","," ","T","X">>,
     meeting_date_long |-> "September 24, 2026", venue |-> "The Beeman Hotel",
     city_state |-> "Dallas, TX", default_tier |-> "standard_1d",
     expected_attendance |-> Some(30)],
    [meeting_name |-> <<"2","0","2","6"," ","C","a","n","c","e","r"," ","U","p","d","a","t","e","s"," ","G","U"," ","a","n","d"," ","L","u","n","g",","," ","P","h","i","l","a","d","e","l","p","h","i","a",","," ","P","A">>,
     meeting_date_long |-> "September 24, 2026", venue |-> "Hilton Penn's Landing",
     city_state |-> "Philadelphia, PA", default_tier |-> "standard_1d",
     expected_attendance |-> Some(30)],
    [meeting_name |-> <<"2","0","2","6"," ","A","s","t","e","r","a"," ","C","a","n","c","e","r"," ","C","a","r","e"," ","A","n","n","u","a","l"," ","R","e","t","r","e","a","t">>,
     meeting_date_long |-> "September 26, 2026", venue |-> "Ocean Place Resort and Spa",
     city_state |-> "Long Branch, NJ", default_tier |-> "standard_1d",
     expected_attendance |-> None],
    [meeting_name |-> <<"2","0","2","6"," ","P","a","t","h","w","a","y","s"," ","C","o","n","f","e","r","e","n","c","e">>,
     meeting_date_long |-> "September 25-26, 2026", venue |-> "Hotel Zaza Houston",
     city_state |-> "Houston, TX", default_tier |-> "standard_2d",
     expected_attendance |-> None],
    [meeting_name |-> <<"2","0","2","6"," ","C","a","n","c","e","r"," ","U","p","d","a","t","e","s"," ","G","I"," ","a","n","d"," ","B","r","e","a","s","t",","," ","B","o","s","t","o","n",","," ","M","A">>,
     meeting_date_long |-> "October 1, 2026", venue |-> "Battery Wharf Hotel Boston Waterfront",
     city_state |-> "Boston, MA", default_tier |-> "standard_1d",
     expected_attendance |-> Some(30)],
    [meeting_name |-> <<"2","0","2","6"," ","W","e","s","t"," ","O","n","c","o","l","o","g","y"," ","A","P","P"," ","D","i","n","n","e","r">>,
     meeting_date_long |-> "October 8, 2026", venue |-> "Hilton Memphis",
     city_state |-> "Memphis, TN", default_tier |-> "standard_1d",
     expected_attendance |-> Some(30)],
    [meeting_name |-> <<"2","0","2","6"," ","V","i","r","t","u","a","l"," ","W","e","s","t"," ","O","n","c","o","l","o","g","y"," ","A","P","P">>,
     meeting_date_long |-> "October 9, 2026", venue |-> "Virtual",
     city_state |-> "Virtual", default_tier |-> "standard_1d",
     expected_attendance |-> None],
    [meeting_name |-> <<"2","0","2","6"," ","E","m","p","o","w","e","r"," ","(","P","a","t","i","e","n","t"," ","M","e","e","t","i","n","g",")">>,
     meeting_date_long |-> "October 10, 2026", venue |-> "Boca Raton, FL",
     city_state |-> "Boca Raton, FL", default_tier |-> "standard_1d",
     expected_attendance |-> None],
    [meeting_name |-> <<"2","0","2","6"," ","E","m","p","o","w","e","r"," ","G","I"," ","C","o","n","f","e","r","e","n","c","e">>,
     meeting_date_long |-> "November 7, 2026", venue |-> "Washington DC",
     city_state |-> "Washington DC", default_tier |-> "standard_1d",
     expected_attendance |-> None],
    [meeting_name |-> <<"2","0","2","6"," ","E","S","M","O"," ","U","S","A"," ","W","e","s","t">>,
     meeting_date_long |-> "November 14-15, 2026", venue |-> "Colorado Springs, CO",
     city_state |-> "Colorado Springs, CO", default_tier |-> "standard_2d",
     expected_attendance |-> None],
    [meeting_name |-> <<"2","0","2","6"," ","E","S","M","O"," ","U","S","A"," ","E","a","s","t">>,
     meeting_date_long |-> "November 14-15, 2026", venue |-> "Orlando, FL",
     city_state |-> "Orlando, FL", default_tier |-> "standard_2d",
     expected_attendance |-> None],
    [meeting_name |-> <<"2","0","2","6"," ","M","u","l","t","i","d","i","s","c","i","p","l","i","n","a","r","y"," ","H","e","a","d"," ","a","n","d"," ","N","e","c","k"," ","C","a","n","c","e","r"," ","S","y","m","p","o","s","i","u","m">>,
     meeting_date_long |-> "November 14, 2026", venue |-> "Garden City, NY",
     city_state |-> "Garden City, NY", default_tier |-> "standard_1d",
     expected_attendance |-> None]>>

\* a catalog in which the first event of 2025 is listed a second time
ALL_EVENTSWithRepeat == EVENTS_2025 \o EVENTS_2026 \o <<EVENTS_2025[1]>>

ALL_EVENTS == EVENTS_2025 \o EVENTS_2026

\* Event.get_year
get_year(event) ==
    IF In(<<"2","0","2","6">>, event.meeting_name) THEN 2026
    ELSE IF In(<<"2","0","2","5">>, event.meeting_name) THEN 2025
    ELSE 2025

(***************************************************************************)
(* core/pricing_calc.py, the pricing of a multi-meeting package            *)
(***************************************************************************)
\* PricingEngine.calculate_multi_meeting_pricing, the body of the loop
\* (lines 120-153) for one configuration: its entry of events_breakdown
BreakdownEntryTableOf2025(sec, booth_prices, config) ==
    LET event == config.event
        btier == DictGet(config, "booth_tier", "(no booth)")
        keys == DictGet(config, "add_on_keys", <<>>)
        add_ons_pricing == get_add_ons_pricing(sec, 2025)
        booth_cost == IF btier # "(no booth)" THEN DictGet(booth_prices, btier, 0) ELSE 0
        addon_cost == AddOnsTotal(add_ons_pricing, keys)
    IN  [event_name |-> event.meeting_name,
         booth_tier |-> btier,
         booth_cost |-> booth_cost,
         add_ons |-> keys,
         addon_cost |-> addon_cost,
         event_total |-> booth_cost + addon_cost]

BreakdownEntry(sec, booth_prices, config) ==
    LET event == config.event
        btier == DictGet(config, "booth_tier", "(no booth)")
        keys == DictGet(config, "add_on_keys", <<>>)
        year == get_year(event)
        add_ons_pricing == get_add_ons_pricing(sec, year)
        booth_cost == IF btier # "(no booth)" THEN DictGet(booth_prices, btier, 0) ELSE 0
        addon_cost == AddOnsTotal(add_ons_pricing, keys)
    IN  [event_name |-> event.meeting_name,
         booth_tier |-> btier,
         booth_cost |-> booth_cost,
         add_ons |-> keys,
         addon_cost |-> addon_cost,
         event_total |-> booth_cost + addon_cost]

\* the loop of lines 119-153 over the configurations from position k on,
\* acc holding total_booth_cost, total_addon_cost and events_breakdown
RECURSIVE MultiMeetingLoop(_, _, _, _, _)
MultiMeetingLoop(sec, booth_prices, events_configs_, k, acc) ==
    IF k > Len(events_configs_) THEN acc
    ELSE LET entry == BreakdownEntry(sec, booth_prices, events_configs_[k])
         IN  MultiMeetingLoop(sec, booth_prices, events_configs_, k + 1,
                 [total_booth_cost |-> acc.total_booth_cost + entry.booth_cost,
                  total_addon_cost |-> acc.total_addon_cost + entry.addon_cost,
                  events_breakdown |-> Append(acc.events_breakdown, entry)])

calculate_multi_meeting_pricing(sec, events_configs_) ==
    LET booth_prices == get_booth_prices(sec)
        acc == MultiMeetingLoop(sec, booth_prices, events_configs_, 1,
                   [total_booth_cost |-> 0, total_addon_cost |-> 0, events_breakdown |-> <<>>])
        final_total == acc.total_booth_cost + acc.total_addon_cost
    IN  [total_booth_cost |-> acc.total_booth_cost,
         total_addon_cost |-> acc.total_addon_cost,
         final_total |-> final_total,
         events_breakdown |-> acc.events_breakdown]

(***************************************************************************)
(* core/models.py and services/multi_meeting.py.  A dict is a function     *)
(* from its keys.                                                          *)
(***************************************************************************)
\* MultiMeetingPackage(company_name=..., document_type=..., additional_info=...,
\* company_address=...): events and the three totals take their defaults
MultiMeetingPackage(company_name, document_type, additional_info, company_address) ==
    [company_name |-> company_name,
     events |-> <<>>,
     total_booth_cost |-> 0,
     total_addon_cost |-> 0,
     final_total |-> 0,
     document_type |-> document_type,
     additional_info |-> additional_info,
     company_address |-> company_address]

\* {**event, "booth_price": booth_price, "addon_cost": addon_cost}
StoredEvent(event, booth_price, addon_cost) ==
    [key \in DOMAIN event \cup {"booth_price", "addon_cost"} |->
        IF key = "booth_price" THEN booth_price
        ELSE IF key = "addon_cost" THEN addon_cost
        ELSE event[key]]

add_eventKeepsEventsPrice(self, event, booth_price, addon_cost) ==
    LET stored == [key \in DOMAIN event \cup {"booth_price", "addon_cost"} |->
                      IF key \in DOMAIN event THEN event[key]
                      ELSE IF key = "booth_price" THEN booth_price
                      ELSE addon_cost]
        total_booth_cost == self.total_booth_cost + booth_price
        total_addon_cost == self.total_addon_cost + addon_cost
    IN  [self EXCEPT !.events = Append(@, stored),
                     !.total_booth_cost = total_booth_cost,
                     !.total_addon_cost = total_addon_cost,
                     !.final_total = total_booth_cost + total_addon_cost]

\* MultiMeetingPackage.add_event: the package after the call
add_event(self, event, booth_price, addon_cost) ==
    LET total_booth_cost == self.total_booth_cost + booth_price
        total_addon_cost == self.total_addon_cost + addon_cost
    IN  [self EXCEPT !.events = Append(@, StoredEvent(event, booth_price, addon_cost)),
                     !.total_booth_cost = total_booth_cost,
                     !.total_addon_cost = total_addon_cost,
                     !.final_total = total_booth_cost + total_addon_cost]

\* MultiMeetingPackage.get_event_count
get_event_count(self) == Len(self.events)

\* Event.to_dict
to_dict(event) == event

\* MultiMeetingService.create_package, its loop (lines 55-73) from position k on
RECURSIVE CreatePackageLoop(_, _, _, _)
CreatePackageLoop(sec, events_configs_, k, pkg) ==
    IF k > Len(events_configs_) THEN pkg
    ELSE LET config == events_configs_[k]
             event == config.event
             btier == DictGet(config, "booth_tier", "(no booth)")
             keys == DictGet(config, "add_on_keys", <<>>)
             pricing == calculate_pricing(sec, btier, keys, get_year(event), "none", None)
         IN  CreatePackageLoop(sec, events_configs_, k + 1,
                 add_event(pkg, to_dict(event), pricing.booth_price, pricing.add_ons_total))

create_package(sec, company_name, events_configs_, document_type, additional_info, company_address) ==
    CreatePackageLoop(sec, events_configs_, 1,
        MultiMeetingPackage(company_name, document_type, additional_info, company_address))

(***************************************************************************)
(* services/event_matcher.py.  An Event is an object of the catalog list;  *)
(* a reference to it is its position in that list.                         *)
(***************************************************************************)
\* A loop "for event in self.events" over the positions lo..hi is written
\* as the loop over the first half followed by the loop over the second.
Mid(lo, hi) == (lo + hi) \div 2

RECURSIVE ExactScanLastHit(_, _, _, _)
ExactScanLastHit(evts, event_name_lower, lo, hi) ==
    IF lo > hi THEN None
    ELSE IF lo = hi
    THEN LET system_name_lower == Lower(evts[lo].meeting_name)
         IN  IF In(event_name_lower, system_name_lower) \/ In(system_name_lower, event_name_lower)
             THEN Some(lo) ELSE None
    ELSE LET found == ExactScanLastHit(evts, event_name_lower, Mid(lo, hi) + 1, hi)
         IN  IF found # None THEN found
             ELSE ExactScanLastHit(evts, event_name_lower, lo, Mid(lo, hi))

RECURSIVE ExactScan(_, _, _, _)
ExactScan(evts, event_name_lower, lo, hi) ==
    IF lo > hi THEN None
    ELSE IF lo = hi
    THEN LET system_name_lower == Lower(evts[lo].meeting_name)
         IN  IF In(event_name_lower, system_name_lower) \/ In(system_name_lower, event_name_lower)
             THEN Some(lo) ELSE None
    ELSE LET found == ExactScan(evts, event_name_lower, lo, Mid(lo, hi))
         IN  IF found # None THEN found
             ELSE ExactScan(evts, event_name_lower, Mid(lo, hi) + 1, hi)

_exact_partial_matchCaseSensitive(evts, name) == ExactScan(evts, name, 1, Len(evts))

_exact_partial_match(evts, name) == ExactScan(evts, Lower(name), 1, Len(evts))

_normalize_nameBestFirst(name) ==
    LET lowered == Lower(name)
        dashes == Replace(Replace(lowered, <<EN_DASH>>, <<"-">>), <<EM_DASH>>, <<"-">>)
        best == Replace(Replace(dashes, <<"b","e","s","t"," ","o","f">>, <<>>),
                        <<"b","e","s","t">>, <<>>)
        asco == Replace(best, <<"b","e","s","t"," ","o","f"," ","a","s","c","o">>,
                              <<"a","s","c","o"," ","d","i","r","e","c","t">>)
    IN  Join(Split(asco))

_normalize_name(name) ==
    LET lowered == Lower(name)
        dashes == Replace(Replace(lowered, <<EN_DASH>>, <<"-">>), <<EM_DASH>>, <<"-">>)
        asco == Replace(dashes, <<"b","e","s","t"," ","o","f"," ","a","s","c","o">>,
                                <<"a","s","c","o"," ","d","i","r","e","c","t">>)
        best == Replace(Replace(asco, <<"b","e","s","t"," ","o","f">>, <<>>),
                        <<"b","e","s","t">>, <<>>)
    IN  Join(Split(best))

RECURSIVE NormalizedScan(_, _, _, _)
NormalizedScan(evts, normalized_input, lo, hi) ==
    IF lo > hi THEN None
    ELSE IF lo = hi
    THEN LET normalized_system == _normalize_name(evts[lo].meeting_name)
         IN  IF In(normalized_input, normalized_system) \/ In(normalized_system, normalized_input)
             THEN Some(lo) ELSE None
    ELSE LET found == NormalizedScan(evts, normalized_input, lo, Mid(lo, hi))
         IN  IF found # None THEN found
             ELSE NormalizedScan(evts, normalized_input, Mid(lo, hi) + 1, hi)

_normalized_match(evts, name) == NormalizedScan(evts, _normalize_name(name), 1, Len(evts))

RECURSIVE KeywordScanLastOnTie(_, _, _, _, _)
KeywordScanLastOnTie(evts, input_words, lo, hi, st) ==
    IF lo > hi THEN st
    ELSE IF lo = hi
    THEN LET system_words == WordSet(Split(Lower(evts[lo].meeting_name)))
             common_count == Cardinality(input_words \cap system_words)
         IN  IF common_count >= 3 /\ common_count >= st[2]
             THEN <<Some(lo), common_count>> ELSE st
    ELSE LET half == KeywordScanLastOnTie(evts, input_words, lo, Mid(lo, hi), st)
         IN  IF half[2] >= 0
             THEN KeywordScanLastOnTie(evts, input_words, Mid(lo, hi) + 1, hi, half)
             ELSE half

\* the loop state of _keyword_match is <<best_match, max_common>>
RECURSIVE KeywordScan(_, _, _, _, _)
KeywordScan(evts, input_words, lo, hi, st) ==
    IF lo > hi THEN st
    ELSE IF lo = hi
    THEN LET system_words == WordSet(Split(Lower(evts[lo].meeting_name)))
             common_count == Cardinality(input_words \cap system_words)
         IN  IF common_count >= 3 /\ common_count > st[2]
             THEN <<Some(lo), common_count>> ELSE st
    ELSE LET half == KeywordScan(evts, input_words, lo, Mid(lo, hi), st)
         IN  \* the test has the first half of the loop evaluated first
             IF half[2] >= 0 THEN KeywordScan(evts, input_words, Mid(lo, hi) + 1, hi, half)
             ELSE half

_keyword_match(evts, name) ==
    KeywordScan(evts, WordSet(Split(Lower(name))), 1, Len(evts), <<None, 0>>)[1]

\* match_event without its normalized stage
match_eventSkipsNormalized(evts, name) ==
    IF name = <<>> \/ Strip(name) = <<>> THEN None
    ELSE LET m1 == _exact_partial_match(evts, name)
         IN  IF m1 # None THEN m1
             ELSE LET m3 == _keyword_match(evts, name)
                  IN  IF m3 # None THEN m3 ELSE None

match_eventNoGuard(evts, name) ==
    LET m1 == _exact_partial_match(evts, name)
    IN  IF m1 # None THEN m1
        ELSE LET m2 == _normalized_match(evts, name)
             IN  IF m2 # None THEN m2
                 ELSE LET m3 == _keyword_match(evts, name)
                      IN  IF m3 # None THEN m3 ELSE None

match_event(evts, name) ==
    IF name = <<>> \/ Strip(name) = <<>> THEN None
    ELSE LET m1 == _exact_partial_match(evts, name)
         IN  IF m1 # None THEN m1
             ELSE LET m2 == _normalized_match(evts, name)
                  IN  IF m2 # None THEN m2
                      ELSE LET m3 == _keyword_match(evts, name)
                           IN  IF m3 # None THEN m3 ELSE None

match_with_confidenceBestStage(evts, name) ==
    IF name = <<>> \/ Strip(name) = <<>> THEN <<None, "none">>
    ELSE LET m3 == _keyword_match(evts, name)
         IN  IF m3 # None THEN <<m3, "keyword">>
             ELSE LET m1 == _exact_partial_match(evts, name)
                  IN  IF m1 # None THEN <<m1, "exact">>
                      ELSE LET m2 == _normalized_match(evts, name)
                           IN  IF m2 # None THEN <<m2, "normalized">>
                               ELSE <<None, "none">>

match_with_confidence(evts, name) ==
    IF name = <<>> \/ Strip(name) = <<>> THEN <<None, "none">>
    ELSE LET m1 == _exact_partial_match(evts, name)
         IN  IF m1 # None THEN <<m1, "exact">>
             ELSE LET m2 == _normalized_match(evts, name)
                  IN  IF m2 # None THEN <<m2, "normalized">>
                      ELSE LET m3 == _keyword_match(evts, name)
                           IN  IF m3 # None THEN <<m3, "keyword">>
                               ELSE <<None, "none">>

\* len(common) / len(total) as the fraction <<numerator, denominator>>; 0.0 is <<0, 1>>
_calculate_similarity(str1, str2) ==
    LET words1 == WordSet(Split(Lower(str1)))
        words2 == WordSet(Split(Lower(str2)))
    IN  IF words1 = {} \/ words2 = {} THEN <<0, 1>>
        ELSE <<Cardinality(words1 \cap words2), Cardinality(words1 \cup words2)>>

\* x > y for fractions with positive denominators
ScoreGreater(x, y) == x[1] * y[2] > y[1] * x[2]

InsertByScoreBeforeTies(sorted, item) ==
    LET before == Cardinality({k \in 1..Len(sorted) : ScoreGreater(sorted[k][2], item[2])})
    IN  SubSeq(sorted, 1, before) \o <<item>> \o SubSeq(sorted, before + 1, Len(sorted))

\* list.sort(key=score, reverse=True) is stable: an item goes behind the
\* items that are not smaller and were there before it
InsertByScore(sorted, item) ==
    LET before == Cardinality({k \in 1..Len(sorted) : ~ScoreGreater(item[2], sorted[k][2])})
    IN  SubSeq(sorted, 1, before) \o <<item>> \o SubSeq(sorted, before + 1, Len(sorted))

RECURSIVE SortScan(_, _, _, _)
SortScan(results, lo, hi, sorted) ==
    IF lo > hi THEN sorted
    ELSE IF lo = hi THEN InsertByScore(sorted, results[lo])
    ELSE LET half == SortScan(results, lo, Mid(lo, hi), sorted)
         IN  \* the test has the first half of the loop evaluated first
             IF Len(half) >= 0 THEN SortScan(results, Mid(lo, hi) + 1, hi, half)
             ELSE half

SortByScore(results) == SortScan(results, 1, Len(results), <<>>)

\* results[:limit]
SliceTo(results, lim) ==
    LET n == Len(results)
        stop == IF lim >= 0 THEN (IF lim < n THEN lim ELSE n)
                ELSE (IF n + lim > 0 THEN n + lim ELSE 0)
    IN  SubSeq(results, 1, stop)

RECURSIVE SimilarScan(_, _, _, _)
SimilarScan(evts, name, lo, hi) ==
    IF lo > hi THEN <<>>
    ELSE IF lo = hi
    THEN LET score == _calculate_similarity(name, evts[lo].meeting_name)
         IN  IF ScoreGreater(score, <<0, 1>>) THEN <<(<<lo, score>>)>> ELSE <<>>
    ELSE SimilarScan(evts, name, lo, Mid(lo, hi)) \o SimilarScan(evts, name, Mid(lo, hi) + 1, hi)

find_similar_events(evts, name, lim) ==
    SliceTo(SortByScore(SimilarScan(evts, name, 1, Len(evts))), lim)

(***************************************************************************)
(* app.py: the events of the letter generator and its bulk (spreadsheet)   *)
(* driver                                                                  *)
(***************************************************************************)
EVENTS == <<
    [meeting_name |-> <<"2","0","2","5"," ","A","s","t","e","r","a"," ","C","a","n","c","e","r"," ","C","a","r","e"," ","A","n","n","u","a","l"," ","R","e","t","r","e","a","t">>,
     meeting_date_long |-> "September 27, 2025", venue |-> "Ocean Place Resort and Spa",
     city_state |-> "Long Branch, NJ", default_tier |-> "standard_1d",
     expected_attendance |-> None],
    [meeting_name |-> <<"2","0","2","5"," ","C","a","n","c","e","r"," ","U","p","d","a","t","e","s"," ","G","U"," ","a","n","d"," ","L","u","n","g",","," ","M","e","m","p","h","i","s",","," ","T","N">>,
     meeting_date_long |-> "September 30, 2025", venue |-> "Hilton Memphis",
     city_state |-> "Memphis, TN", default_tier |-> "standard_1d",
     expected_attendance |-> None],
    [meeting_name |-> <<"2","0","2","5"," ","W","e","s","t"," ","O","n","c","o","l","o","g","y"," ","A","P","P"," ","D","i","n","n","e","r">>,
     meeting_date_long |-> "October 9, 2025", venue |-> "Hilton Memphis",
     city_state |-> "Memphis, TN", default_tier |-> "standard_1d",
     expected_attendance |-> None],
    [meeting_name |-> <<"2","0","2","5"," ","E","m","p","o","w","e","r"," ","(","P","a","t","i","e","n","t"," ","M","e","e","t","i","n","g",")">>,
     meeting_date_long |-> "October 11, 2025", venue |-> "Farmer's Table",
     city_state |-> "Boca Raton, FL", default_tier |-> "standard_1d",
     expected_attendance |-> None],
    [meeting_name |-> <<"2","0","2","5"," ","N","o","r","t","h","w","e","l","l"," ","H","e","a","l","t","h"," ","S","e","c","o","n","d"," ","A","n","n","u","a","l"," ","L","i","v","e","r"," ","C","a","n","c","e","r"," ","S","y","m","p","o","s","i","u","m">>,
     meeting_date_long |-> "October 17, 2025", venue |-> "The Garden City Hotel",
     city_state |-> "Garden City, NY", default_tier |-> "standard_1d",
     expected_attendance |-> None],
    [meeting_name |-> <<"2","0","2","5"," ","C","a","n","c","e","r"," ","U","p","d","a","t","e","s"," ","G","I"," ","a","n","d"," ","B","r","e","a","s","t",","," ","B","o","s","t","o","n",","," ","M","A">>,
     meeting_date_long |-> "October 30, 2025", venue |-> "Battery Wharf Hotel Boston Waterfront",
     city_state |-> "Boston, MA", default_tier |-> "standard_1d",
     expected_attendance |-> None],
    [meeting_name |-> <<"2","0","2","5"," ","E","S","M","O"," ","U","S","A"," ","W","e","s","t">>,
     meeting_date_long |-> "November 1\\u20132, 2025", venue |-> "The Antlers",
     city_state |-> "Colorado Springs, CO", default_tier |-> "standard_2d",
     expected_attendance |-> None],
    [meeting_name |-> <<"2","0","2","5"," ","E","S","M","O"," ","U","S","A"," ","E","a","s","t">>,
     meeting_date_long |-> "November 1\\u20132, 2025", venue |-> "The Ritz-Carlton Orlando",
     city_state |-> "Orlando, FL", default_tier |-> "standard_2d",
     expected_attendance |-> None],
    [meeting_name |-> <<"2","0","2","5"," ","N","o","r","t","h","w","e","l","l"," ","H","e","a","l","t","h"," ","M","u","l","t","i","d","i","s","c","i","p","l","i","n","a","r","y"," ","H","e","a","d"," ","a","n","d"," ","N","e","c","k"," ","C","a","n","c","e","r"," ","S","y","m","p","o","s","i","u","m">>,
     meeting_date_long |-> "November 1, 2025", venue |-> "The Garden City Hotel",
     city_state |-> "Garden City, NY", default_tier |-> "standard_1d",
     expected_attendance |-> None],
    [meeting_name |-> <<"2","0","2","5"," ","C","a","n","c","e","r"," ","U","p","d","a","t","e","s"," ","H","e","m","e"," ","a","n","d"," ","G","U",","," ","D","e","n","v","e","r",","," ","C","O">>,
     meeting_date_long |-> "December 4, 2025", venue |-> "Denver Marriott Westminster",
     city_state |-> "Denver, CO", default_tier |-> "standard_1d",
     expected_attendance |-> None],
    [meeting_name |-> <<"2","0","2","5"," ","N","o","r","t","h","w","e","l","l"," ","B","e","s","t"," ","o","f"," ","P","r","a","c","t","i","c","e"," ","I","m","p","a","c","t","i","n","g"," ","S","c","i","e","n","c","e">>,
     meeting_date_long |-> "December 5, 2025", venue |-> "The Garden City Hotel",
     city_state |-> "Garden City, NY", default_tier |-> "standard_1d",
     expected_attendance |-> None],
    [meeting_name |-> <<"2","0","2","5"," ","O","n","c","o","l","o","g","y"," ","U","p","d","a","t","e"," ","C","o","n","f","e","r","e","n","c","e"," ","p","r","e","s","e","n","t","e","d"," ","b","y"," ","H","i","g","h"," ","P","l","a","i","n","s"," ","O","n","c","o","l","o","g","y"," ","P","r","o","f","e","s","s","i","o","n","a","l","s","-","H","P","O","P">>,
     meeting_date_long |-> "December 6, 2025", venue |-> "Fort Collins Marriott",
     city_state |-> "Fort Collins, CO", default_tier |-> "standard_1d",
     expected_attendance |-> None],
    [meeting_name |-> <<"2","0","2","5"," ","(","N","o","r","t","h","w","e","l","l",")"," ","2","n","d"," ","A","n","n","u","a","l"," ","N","e","w"," ","Y","o","r","k"," ","P","a","n","c","r","e","a","t","i","c"," ","C","a","n","c","e","r"," ","C","o","n","s","o","r","t","i","u","m">>,
     meeting_date_long |-> "December 12, 2025", venue |-> "Martinique New York on Broadway",
     city_state |-> "Manhattan, NY", default_tier |-> "platinum",
     expected_attendance |-> None],
    [meeting_name |-> <<"2","0","2","6"," ","B","e","s","t"," ","o","f"," ","B","r","e","a","s","t"," ","C","o","n","f","e","r","e","n","c","e">>,
     meeting_date_long |-> "January 17-18, 2026", venue |-> "Beach House Ft. Lauderdale",
     city_state |-> "Fort Lauderdale, FL", default_tier |-> "best_of",
     expected_attendance |-> Some(50)],
    [meeting_name |-> <<"2","0","2","6"," ","C","a","n","c","e","r"," ","U","p","d","a","t","e","s"," ","G","I"," ","a","n","d"," ","B","r","e","a","s","t",","," ","P","r","i","n","c","e","t","o","n",","," ","N","J">>,
     meeting_date_long |-> "January 22, 2026", venue |-> "Princeton Marriott at Forrestal",
     city_state |-> "Princeton, NJ", default_tier |-> "standard_1d",
     expected_attendance |-> Some(30)],
    [meeting_name |-> <<"2","0","2","6"," ","N","o","r","t","h","w","e","l","l"," ","C","a","n","c","e","r"," ","I","n","s","t","i","t","u","t","e"," ","F","r","o","n","t","i","e","r","s"," ","i","n"," ","C","a","n","c","e","r"," ","S","c","i","e","n","t","i","f","i","c"," ","S","y","m","p","o","s","i","u","m">>,
     meeting_date_long |-> "January 28, 2026", venue |-> "Carnegie Hall",
     city_state |-> "Manhattan, NYC", default_tier |-> "standard_1d",
     expected_attendance |-> None],
    [meeting_name |-> <<"2","0","2","6"," ","W","e","s","t"," ","O","n","c","o","l","o","g","y"," ","C","o","n","f","e","r","e","n","c","e">>,
     meeting_date_long |-> "January 31-February 1, 2026", venue |-> "Hilton Memphis",
     city_state |-> "Memphis, TN", default_tier |-> "standard_2d",
     expected_attendance |-> Some(50)],
    [meeting_name |-> <<"2","0","2","6"," ","B","e","s","t"," ","o","f"," ","H","e","m","a","t","o","l","o","g","y"," ","C","o","n","f","e","r","e","n","c","e">>,
     meeting_date_long |-> "February 7-8, 2026", venue |-> "The Hythe",
     city_state |-> "Vail, CO", default_tier |-> "best_of",
     expected_attendance |-> Some(30)],
    [meeting_name |-> <<"2","0","2","6"," ","A","S","C","O"," ","D","i","r","e","c","t"," ","G","I">>,
     meeting_date_long |-> "February 7-8, 2026", venue |-> "The Rittenhouse",
     city_state |-> "Philadelphia, PA", default_tier |-> "standard_2d",
     expected_attendance |-> Some(40)],
    [meeting_name |-> <<"2","0","2","6"," ","U","n","i","v","e","r","s","i","t","y"," ","o","f"," ","K","a","n","s","a","s"," ","C","a","n","c","e","r"," ","C","e","n","t","e","r"," ","B","r","e","a","s","t"," ","C","a","n","c","e","r"," ","Y","e","a","r"," ","i","n"," ","R","e","v","i","e","w">>,
     meeting_date_long |-> "February 21, 2026", venue |-> "Sheraton Overland Park Hotel at the Convention Center",
     city_state |-> "Kansas City, MO", default_tier |-> "standard_1d",
     expected_attendance |-> Some(75)],
    [meeting_name |-> <<"2","0","2","6"," ","C","a","n","c","e","r"," ","U","p","d","a","t","e","s"," ","G","I"," ","a","n","d"," ","B","r","e","a","s","t",","," ","D","a","l","l","a","s",","," ","T","X">>,
     meeting_date_long |-> "February 26, 2026", venue |-> "The Highland Dallas",
     city_state |-> "Dallas, TX", default_tier |-> "standard_1d",
     expected_attendance |-> Some(30)],
    [meeting_name |-> <<"2","0","2","6"," ","C","a","n","c","e","r"," ","U","p","d","a","t","e","s"," ","G","I"," ","a","n","d"," ","B","r","e","a","s","t",","," ","N","a","s","h","v","i","l","l","e",","," ","T","N">>,
     meeting_date_long |-> "March 5, 2026", venue |-> "Loews Vanderbilt Hotel",
     city_state |-> "Nashville, TN", default_tier |-> "standard_1d",
     expected_attendance |-> Some(30)],
    [meeting_name |-> <<"2","0","2","6"," ","C","a","n","c","e","r"," ","U","p","d","a","t","e","s"," ","G","I"," ","a","n","d"," ","L","u","n","g",","," ","D","e","n","v","e","r",","," ","C","O">>,
     meeting_date_long |-> "March 12, 2026", venue |-> "Denver Marriott Westminster",
     city_state |-> "Denver, CO", default_tier |-> "standard_1d",
     expected_attendance |-> Some(30)],
    [meeting_name |-> <<"2","0","2","6"," ","A","S","C","O"," ","D","i","r","e","c","t"," ","G","U">>,
     meeting_date_long |-> "March 14-15, 2026", venue |-> "The Hyatt",
     city_state |-> "Boston, MA", default_tier |-> "standard_2d",
     expected_attendance |-> Some(40)],
    [meeting_name |-> <<"2","0","2","6"," ","C","a","n","c","e","r"," ","U","p","d","a","t","e","s"," ","G","I"," ","a","n","d"," ","B","r","e","a","s","t",","," ","H","o","u","s","t","o","n">>,
     meeting_date_long |-> "April 9, 2026", venue |-> "The Blossom Hotel Houston",
     city_state |-> "Houston, TX", default_tier |-> "standard_1d",
     expected_attendance |-> Some(30)],
    [meeting_name |-> <<"2","0","2","6"," ","P","a","t","h","w","a","y","s"," ","C","o","n","f","e","r","e","n","c","e">>,
     meeting_date_long |-> "April 10-11, 2026", venue |-> "Houston, TX",
     city_state |-> "Houston, TX", default_tier |-> "standard_2d",
     expected_attendance |-> None],
    [meeting_name |-> <<"2","0","2","6"," ","O","n","c","o","l","o","g","y"," ","C","l","i","n","i","c","a","l"," ","U","p","d","a","t","e","s"," ","-"," ","R","e","v","i","e","w"," ","a","n","d"," ","R","e","n","e","w"," ","S","e","d","o","n","a">>,
     meeting_date_long |-> "April 11-12, 2026", venue |-> "Sedona, AZ",
     city_state |-> "Sedona, AZ", default_tier |-> "standard_2d",
     expected_attendance |-> None],
    [meeting_name |-> <<"E","S","M","O"," ","i","n"," ","F","o","c","u","s"," ","2","0","2","6",":"," ","L","u","n","g"," ","C","a","n","c","e","r"," ","a","n","d"," ","S","a","r","c","o","m","a","s"," ","-"," ","W","i","t","h"," ","J","o","h","n"," ","T","r","e","n","t"," ","a","n","d"," ","R","a","v","i"," ","S","a","l","g","i","a">>,
     meeting_date_long |-> "April 25, 2026", venue |-> "Minneapolis, MN",
     city_state |-> "Minneapolis, MN", default_tier |-> "standard_1d",
     expected_attendance |-> None],
    [meeting_name |-> <<"2","0","2","6"," ","C","a","n","c","e","r"," ","U","p","d","a","t","e","s"," ","B","r","e","a","s","t"," ","a","n","d"," ","L","u","n","g",","," ","K","a","n","s","a","s"," ","C","i","t","y">>,
     meeting_date_long |-> "May 14, 2026", venue |-> "Kansas City, MO",
     city_state |-> "Kansas City, MO", default_tier |-> "standard_1d",
     expected_attendance |-> None],
    [meeting_name |-> <<"E","S","M","O"," ","i","n"," ","F","o","c","u","s"," ","2","0","2","6",":"," ","B","r","e","a","s","t"," ","-"," ","E","A","S","T"," ","-"," ","W","i","t","h"," ","R","e","s","h","m","a"," ","M","a","h","t","a","n","i"," ","a","n","d"," ","K","e","v","i","n"," ","K","a","l","i","n","s","k","y">>,
     meeting_date_long |-> "May 16, 2026", venue |-> "Baltimore, MD",
     city_state |-> "Baltimore, MD", default_tier |-> "standard_1d",
     expected_attendance |-> None],
    [meeting_name |-> <<"E","S","M","O"," ","i","n"," ","F","o","c","u","s"," ","2","0","2","6",":"," ","B","r","e","a","s","t"," ","-"," ","W","E","S","T"," ","-"," ","W","i","t","h"," ","H","o","p","e"," ","R","u","g","o"," ","a","n","d"," ","S","a","r","a","h"," ","T","o","l","a","n","e","y">>,
     meeting_date_long |-> "May 16, 2026", venue |-> "Salt Lake City, UT",
     city_state |-> "Salt Lake City, UT", default_tier |-> "standard_1d",
     expected_attendance |-> None],
    [meeting_name |-> <<"2","0","2","6"," ","B","e","s","t"," ","O","f"," ","A","S","C","O"," ","P","u","e","r","t","o"," ","R","i","c","o">>,
     meeting_date_long |-> "June 13-14, 2026", venue |-> "Hyatt Regency Grand Reserve",
     city_state |-> "San Juan, PR", default_tier |-> "standard_2d",
     expected_attendance |-> Some(60)],
    [meeting_name |-> <<"2","0","2","6"," ","B","e","s","t"," ","O","f"," ","A","S","C","O"," ","A","u","s","t","i","n">>,
     meeting_date_long |-> "June 13-14, 2026", venue |-> "W Austin",
     city_state |-> "Austin, TX", default_tier |-> "standard_2d",
     expected_attendance |-> Some(60)],
    [meeting_name |-> <<"2","0","2","6"," ","B","e","s","t"," ","O","f"," ","A","S","C","O"," ","L","o","s"," ","A","n","g","e","l","e","s">>,
     meeting_date_long |-> "June 13-14, 2026", venue |-> "Le Meridien",
     city_state |-> "Los Angeles, CA", default_tier |-> "standard_2d",
     expected_attendance |-> Some(50)],
    [meeting_name |-> <<"2","0","2","6"," ","B","e","s","t"," ","O","f"," ","A","S","C","O"," ","H","a","w","a","i","i">>,
     meeting_date_long |-> "June 27-28, 2026", venue |-> "Sheraton Waikiki Beach Resort",
     city_state |-> "Honolulu, HI", default_tier |-> "standard_2d",
     expected_attendance |-> Some(100)],
    [meeting_name |-> <<"2","0","2","6"," ","B","e","s","t"," ","O","f"," ","A","S","C","O"," ","W","a","s","h","i","n","g","t","o","n"," ","D","C">>,
     meeting_date_long |-> "June 27-28, 2026", venue |-> "Four Seasons Hotel Washington",
     city_state |-> "Washington DC", default_tier |-> "standard_2d",
     expected_attendance |-> Some(60)],
    [meeting_name |-> <<"2","0","2","6"," ","B","e","s","t"," ","O","f"," ","A","S","C","O"," ","D","e","n","v","e","r">>,
     meeting_date_long |-> "June 27-28, 2026", venue |-> "Denver Marriott Westminster",
     city_state |-> "Denver, CO", default_tier |-> "standard_2d",
     expected_attendance |-> Some(60)],
    [meeting_name |-> <<"2","0","2","6"," ","C","a","n","c","e","r"," ","U","p","d","a","t","e","s"," ","H","e","m","e"," ","a","n","d"," ","B","r","e","a","s","t",","," ","M","i","c","h","i","g","a","n">>,
     meeting_date_long |-> "July 9, 2026", venue |-> "Ann Arbor, MI",
     city_state |-> "Ann Arbor, MI", default_tier |-> "standard_1d",
     expected_attendance |-> None],
    [meeting_name |-> <<"2","0","2","6"," ","A","S","C","O"," ","D","i","r","e","c","t"," ","N","e","w"," ","O","r","l","e","a","n","s">>,
     meeting_date_long |-> "July 10-11, 2026", venue |-> "New Orleans, LA",
     city_state |-> "New Orleans, LA", default_tier |-> "standard_2d",
     expected_attendance |-> None],
    [meeting_name |-> <<"2","0","2","6"," ","A","S","C","O"," ","D","i","r","e","c","t"," ","C","h","a","r","l","o","t","t","e">>,
     meeting_date_long |-> "July 18-19, 2026", venue |-> "Grand Bohemian",
     city_state |-> "Charlotte, NC", default_tier |-> "standard_2d",
     expected_attendance |-> Some(60)],
    [meeting_name |-> <<"2","0","2","6"," ","B","e","s","t"," ","O","f"," ","A","S","C","O"," ","P","h","i","l","a","d","e","l","p","h","i","a">>,
     meeting_date_long |-> "July 18-19, 2026", venue |-> "Rittenhouse",
     city_state |-> "Philadelphia, PA", default_tier |-> "standard_2d",
     expected_attendance |-> Some(60)],
    [meeting_name |-> <<"2","0","2","6"," ","B","e","s","t"," ","O","f"," ","A","S","C","O"," ","A","n","c","h","o","r","a","g","e">>,
     meeting_date_long |-> "July 18-19, 2026", venue |-> "Anchorage Marriott Downtown",
     city_state |-> "Anchorage, AK", default_tier |-> "standard_2d",
     expected_attendance |-> Some(30)],
    [meeting_name |-> <<"2","0","2","6"," ","A","S","C","O"," ","D","i","r","e","c","t"," ","L","a","s"," ","V","e","g","a","s">>,
     meeting_date_long |-> "July 25-26, 2026", venue |-> "Westin Lake Las Vegas",
     city_state |-> "Henderson/Las Vegas, NV", default_tier |-> "standard_2d",
     expected_attendance |-> Some(60)],
    [meeting_name |-> <<"2","0","2","6"," ","B","e","s","t"," ","O","f"," ","A","S","C","O"," ","I","n","d","i","a","n","a","p","o","l","i","s">>,
     meeting_date_long |-> "July 25-26, 2026", venue |-> "Indianapolis Marriott Downtown",
     city_state |-> "Indianapolis, IN", default_tier |-> "standard_2d",
     expected_attendance |-> Some(50)],
    [meeting_name |-> <<"2","0","2","6"," ","B","e","s","t"," ","O","f"," ","A","S","C","O"," ","M","i","n","n","e","a","p","o","l","i","s">>,
     meeting_date_long |-> "August 1-2, 2026", venue |-> "Four Seasons Minneapolis",
     city_state |-> "Minneapolis, MN", default_tier |-> "standard_2d",
     expected_attendance |-> Some(50)],
    [meeting_name |-> <<"2","0","2","6"," ","B","e","s","t"," ","O","f"," ","A","S","C","O"," ","M","a","i","n","e">>,
     meeting_date_long |-> "August 1-2, 2026", venue |-> "TBD",
     city_state |-> "Portland, ME", default_tier |-> "standard_2d",
     expected_attendance |-> Some(50)],
    [meeting_name |-> <<"2","0","2","6"," ","A","S","C","O"," ","D","i","r","e","c","t"," ","B","o","s","t","o","n">>,
     meeting_date_long |-> "August 8-9, 2026", venue |-> "Ritz Carlton Boston",
     city_state |-> "Boston, MA", default_tier |-> "standard_2d",
     expected_attendance |-> Some(50)],
    [meeting_name |-> <<"2","0","2","6"," ","A","S","C","O"," ","D","i","r","e","c","t"," ","S","e","a","t","t","l","e">>,
     meeting_date_long |-> "August 8-9, 2026", venue |-> "Hilton Motif Seattle",
     city_state |-> "Seattle, WA", default_tier |-> "standard_2d",
     expected_attendance |-> Some(50)],
    [meeting_name |-> <<"2","0","2","6"," ","B","e","s","t"," ","O","f"," ","A","S","C","O"," ","M","e","m","p","h","i","s">>,
     meeting_date_long |-> "August 8-9, 2026", venue |-> "Hilton Memphis",
     city_state |-> "Memphis, TN", default_tier |-> "standard_2d",
     expected_attendance |-> Some(60)],
    [meeting_name |-> <<"2","0","2","6"," ","C","a","n","c","e","r"," ","U","p","d","a","t","e"," ","G","U"," ","a","n","d"," ","L","u","n","g",","," ","P","r","i","n","c","e","t","o","n",","," ","N","J">>,
     meeting_date_long |-> "August 13, 2026", venue |-> "Princeton, NJ",
     city_state |-> "Princeton, NJ", default_tier |-> "standard_1d",
     expected_attendance |-> None],
    [meeting_name |-> <<"2","0","2","6"," ","O","n","c","o","l","o","g","y"," ","C","l","i","n","i","c","a","l"," ","U","p","d","a","t","e","s"," ","-"," ","R","e","v","i","e","w"," ","a","n","d"," ","R","e","n","e","w"," ","M","a","r","t","h","a","'","s"," ","V","i","n","e","y","a","r","d">>,
     meeting_date_long |-> "August 15-16, 2026", venue |-> "Martha's Vineyard, MA",
     city_state |-> "Martha's Vineyard, MA", default_tier |-> "standard_2d",
     expected_attendance |-> None],
    [meeting_name |-> <<"2","0","2","6"," ","C","a","n","c","e","r"," ","U","p","d","a","t","e","s"," ","G","U"," ","a","n","d"," ","H","e","m","e",","," ","H","o","u","s","t","o","n",","," ","T","X">>,
     meeting_date_long |-> "September 10, 2026", venue |-> "Houston, TX",
     city_state |-> "Houston, TX", default_tier |-> "standard_1d",
     expected_attendance |-> None],
    [meeting_name |-> <<"2","0","2","6"," ","M","D","O","N","S"," ","C","o","n","f","e","r","e","n","c","e">>,
     meeting_date_long |-> "September 18, 2026", venue |-> "Denver, CO",
     city_state |-> "Denver, CO", default_tier |-> "standard_1d",
     expected_attendance |-> None],
    [meeting_name |-> <<"2","0","2","6"," ","C","a","n","c","e","r"," ","U","p","d","a","t","e","s"," ","L","u","n","g"," ","a","n","d"," ","B","r","e","a","s","t",","," ","D","a","l","l","a","s",","," ","T","X">>,
     meeting_date_long |-> "September 24, 2026", venue |-> "Dallas, TX",
     city_state |-> "Dallas, TX", default_tier |-> "standard_1d",
     expected_attendance |-> None],
    [meeting_name |-> <<"2","0","2","6"," ","C","a","n","c","e","r"," ","U","p","d","a","t","e","s"," ","G","U"," ","a","n","d"," ","L","u","n","g",","," ","P","h","i","l","a","d","e","l","p","h","i","a",","," ","P","A">>,
     meeting_date_long |-> "September 24, 2026", venue |-> "Philadelphia, PA",
     city_state |-> "Philadelphia, PA", default_tier |-> "standard_1d",
     expected_attendance |-> None],
    [meeting_name |-> <<"2","0","2","6"," ","A","s","t","e","r","a"," ","C","a","n","c","e","r"," ","C","a","r","e"," ","A","n","n","u","a","l"," ","R","e","t","r","e","a","t">>,
     meeting_date_long |-> "September 26, 2026", venue |-> "Long Branch, NJ",
     city_state |-> "Long Branch, NJ", default_tier |-> "standard_1d",
     expected_attendance |-> None],
    [meeting_name |-> <<"2","0","2","6"," ","C","a","n","c","e","r"," ","U","p","d","a","t","e","s"," ","G","I"," ","a","n","d"," ","B","r","e","a","s","t",","," ","B","o","s","t","o","n",","," ","M","A">>,
     meeting_date_long |-> "October 1, 2026", venue |-> "Boston, MA",
     city_state |-> "Boston, MA", default_tier |-> "standard_1d",
     expected_attendance |-> None],
    [meeting_name |-> <<"2","0","2","6"," ","W","e","s","t"," ","O","n","c","o","l","o","g","y"," ","A","P","P"," ","D","i","n","n","e","r">>,
     meeting_date_long |-> "October 8, 2026", venue |-> "Memphis, TN",
     city_state |-> "Memphis, TN", default_tier |-> "standard_1d",
     expected_attendance |-> None],
    [meeting_name |-> <<"2","0","2","6"," ","V","i","r","t","u","a","l"," ","W","e","s","t"," ","O","n","c","o","l","o","g","y"," ","A","P","P">>,
     meeting_date_long |-> "October 9, 2026", venue |-> "Virtual",
     city_state |-> "Virtual", default_tier |-> "standard_1d",
     expected_attendance |-> None],
    [meeting_name |-> <<"2","0","2","6"," ","E","m","p","o","w","e","r"," ","(","P","a","t","i","e","n","t"," ","M","e","e","t","i","n","g",")">>,
     meeting_date_long |-> "October 10, 2026", venue |-> "Boca Raton, FL",
     city_state |-> "Boca Raton, FL", default_tier |-> "standard_1d",
     expected_attendance |-> None],
    [meeting_name |-> <<"2","0","2","6"," ","E","m","p","o","w","e","r"," ","G","I"," ","C","o","n","f","e","r","e","n","c","e">>,
     meeting_date_long |-> "November 7, 2026", venue |-> "Washington DC",
     city_state |-> "Washington DC", default_tier |-> "standard_1d",
     expected_attendance |-> None],
    [meeting_name |-> <<"2","0","2","6"," ","E","S","M","O"," ","U","S","A"," ","W","e","s","t">>,
     meeting_date_long |-> "November 14-15, 2026", venue |-> "Colorado Springs, CO",
     city_state |-> "Colorado Springs, CO", default_tier |-> "standard_2d",
     expected_attendance |-> None],
    [meeting_name |-> <<"2","0","2","6"," ","E","S","M","O"," ","U","S","A"," ","E","a","s","t">>,
     meeting_date_long |-> "November 14-15, 2026", venue |-> "Orlando, FL",
     city_state |-> "Orlando, FL", default_tier |-> "standard_2d",
     expected_attendance |-> None],
    [meeting_name |-> <<"2","0","2","6"," ","M","u","l","t","i","d","i","s","c","i","p","l","i","n","a","r","y"," ","H","e","a","d"," ","a","n","d"," ","N","e","c","k"," ","C","a","n","c","e","r"," ","S","y","m","p","o","s","i","u","m">>,
     meeting_date_long |-> "November 14, 2026", venue |-> "Garden City, NY",
     city_state |-> "Garden City, NY", default_tier |-> "standard_1d",
     expected_attendance |-> None]>>

\* normalize_name of the bulk driver
normalize_name(name) ==
    LET lowered == Lower(name)
        dashes == Replace(Replace(Replace(lowered, <<EN_DASH>>, <<"-">>), <<EM_DASH>>, <<"-">>),
                          <<MINUS_SIGN>>, <<"-">>)
        asco == Replace(dashes, <<"b","e","s","t"," ","o","f"," ","a","s","c","o">>,
                                <<"a","s","c","o"," ","d","i","r","e","c","t">>)
        best == Replace(Replace(asco, <<"b","e","s","t"," ","o","f">>, <<>>),
                        <<"b","e","s","t">>, <<>>)
    IN  Join(Split(best))

\* "Try exact partial match first"
RECURSIVE BulkExactScan(_, _, _)
BulkExactScan(event_name_lower, lo, hi) ==
    IF lo > hi THEN None
    ELSE IF lo = hi
    THEN LET evt_name_lower == Lower(EVENTS[lo].meeting_name)
         IN  IF In(event_name_lower, evt_name_lower) \/ In(evt_name_lower, event_name_lower)
             THEN Some(lo) ELSE None
    ELSE LET found == BulkExactScan(event_name_lower, lo, Mid(lo, hi))
         IN  IF found # None THEN found
             ELSE BulkExactScan(event_name_lower, Mid(lo, hi) + 1, hi)

\* "If not found, try normalized matching"
RECURSIVE BulkNormalizedScan(_, _, _)
BulkNormalizedScan(normalized_excel, lo, hi) ==
    IF lo > hi THEN None
    ELSE IF lo = hi
    THEN LET normalized_system == normalize_name(EVENTS[lo].meeting_name)
         IN  IF In(normalized_excel, normalized_system) \/ In(normalized_system, normalized_excel)
             THEN Some(lo) ELSE None
    ELSE LET found == BulkNormalizedScan(normalized_excel, lo, Mid(lo, hi))
         IN  IF found # None THEN found
             ELSE BulkNormalizedScan(normalized_excel, Mid(lo, hi) + 1, hi)

\* "If still not found, try key word matching": the first event sharing 3 words
RECURSIVE BulkKeywordScan(_, _, _)
BulkKeywordScan(excel_words, lo, hi) ==
    IF lo > hi THEN None
    ELSE IF lo = hi
    THEN LET evt_words == WordSet(Split(Lower(EVENTS[lo].meeting_name)))
         IN  IF Cardinality(excel_words \cap evt_words) >= 3 THEN Some(lo) ELSE None
    ELSE LET found == BulkKeywordScan(excel_words, lo, Mid(lo, hi))
         IN  IF found # None THEN found ELSE BulkKeywordScan(excel_words, Mid(lo, hi) + 1, hi)

\* the event the driver finds for the name a row gives, None when it finds none
matching_event(name) ==
    LET m1 == BulkExactScan(Lower(name), 1, Len(EVENTS))
    IN  IF m1 # None THEN m1
        ELSE LET m2 == BulkNormalizedScan(normalize_name(name), 1, Len(EVENTS))
             IN  IF m2 # None THEN m2
                 ELSE BulkKeywordScan(WordSet(Split(Lower(name))), 1, Len(EVENTS))

Digits == {"0", "1", "2", "3", "4", "5", "6", "7", "8", "9"}
Letters == DOMAIN UpperToLower \cup {UpperToLower[c] : c \in DOMAIN UpperToLower}

\* re.sub(r'[$,]', '', total_str)
StripMoney(total_str) == Replace(Replace(total_str, <<"$">>, <<>>), <<",">>, <<>>)

\* float(text) returns for a decimal numeral, signed or not, and for the
\* words nan, inf and infinity, with blanks around; for other texts it raises
\* ValueError.  Exponents and digit separators are not modelled.
FloatParses(text) ==
    LET t == Strip(text)
        u == IF t # <<>> /\ t[1] \in {"+", "-"} THEN Tail(t) ELSE t
    IN  \/ /\ \A k \in 1..Len(u) : u[k] \in Digits \cup {"."}
           /\ \E k \in 1..Len(u) : u[k] \in Digits
           /\ Cardinality({k \in 1..Len(u) : u[k] = "."}) <= 1
        \/ Lower(u) \in {<<"n","a","n">>, <<"i","n","f">>, <<"i","n","f","i","n","i","t","y">>}

\* "".join(c for c in exhibitor_invite if c.isalnum() or c in (' ', '-', '_'))
KeepFilenameChars(exhibitor_invite) ==
    SelectSeq(exhibitor_invite, LAMBDA c : c \in Letters \cup Digits \cup {" ", "-", "_"})

\* str.rstrip
RStrip(s) ==
    LET last == {k \in 1..Len(s) : s[k] \notin Whitespace}
    IN  IF last = {} THEN <<>>
        ELSE SubSeq(s, 1, CHOOSE k \in last : \A l \in last : l <= k)

\* the cleaned file name of a row's documents
safe_filename(exhibitor_invite) ==
    LET kept == RStrip(KeepFilenameChars(exhibitor_invite))
        underscored == Replace(Replace(kept, <<" ", " ">>, <<" ">>), <<" ">>, <<"_">>)
    IN  SubSeq(underscored, 1, IF Len(underscored) < 80 THEN Len(underscored) ELSE 80)

(***************************************************************************)
(* config/settings.py and core/security.py.  st.session_state is a dict;   *)
(* datetime.now() is a number of hours.                                    *)
(***************************************************************************)
SECURITY_CONFIG == [password_expiry_hours |-> 48, session_timeout_minutes |-> 120]

\* d[key] = value
DictSet(d, key, value) ==
    [k \in DOMAIN d \cup {key} |-> IF k = key THEN value ELSE d[k]]

\* del d[key]
DictDel(d, key) == [k \in DOMAIN d \ {key} |-> d[k]]

\* AuthenticationManager._set_authenticated
_set_authenticated(ss, role, clock) ==
    LET set == DictSet(DictSet(DictSet(DictSet(ss,
                   "password_correct", TRUE),
                   "password_expired", FALSE),
                   "user_role", role),
                   "password_timestamp", clock)
    IN  IF "password" \in DOMAIN set THEN DictDel(set, "password") ELSE set

\* password_entered, the on_change callback of the password field
password_entered(ss, sec, clock) ==
    LET entered_password == ss["password"]
    IN  IF entered_password = DictGet(sec, "password", "")
        THEN _set_authenticated(ss, "General", clock)
        ELSE IF entered_password = DictGet(sec, "sarah_password", "Sarah2025!")
        THEN _set_authenticated(ss, "CEO", clock)
        ELSE IF entered_password = DictGet(sec, "allison_password", "Allison2025")
        THEN _set_authenticated(ss, "Allison", clock)
        ELSE DictSet(DictSet(ss, "password_correct", FALSE), "password_expired", FALSE)

\* AuthenticationManager._is_password_expired: the session state it leaves
\* and the value it returns
_is_password_expired(ss, clock) ==
    IF "password_timestamp" \notin DOMAIN ss
    THEN [session_state |-> ss, returned |-> FALSE]
    ELSE LET timestamp == ss["password_timestamp"]
             expiry_hours == SECURITY_CONFIG.password_expiry_hours
             expiry_time == timestamp + expiry_hours
         IN  IF clock > expiry_time
             THEN [session_state |-> DictSet(ss, "password_expired", TRUE), returned |-> TRUE]
             ELSE [session_state |-> ss, returned |-> FALSE]

\* st.text_input("Password", ..., key="password"): the field is drawn and its
\* text is kept in the session state under its key, empty at first
text_input(ss) == IF "password" \in DOMAIN ss THEN ss ELSE DictSet(ss, "password", "")

\* AuthenticationManager.check_password: the session state it leaves and the
\* value it returns
check_password(ss, clock) ==
    IF "password_correct" \notin DOMAIN ss
    THEN [session_state |-> text_input(ss), returned |-> FALSE]
    ELSE LET expired == _is_password_expired(ss, clock)
         IN  IF expired.returned
             THEN [session_state |-> text_input(expired.session_state), returned |-> FALSE]
             ELSE IF ~expired.session_state["password_correct"]
             THEN [session_state |-> text_input(expired.session_state), returned |-> FALSE]
             ELSE [session_state |-> expired.session_state, returned |-> TRUE]

\* AuthenticationManager.revoke_access
revoke_accessKeepsCorrect(ss) ==
    DictSet(ss, "password_expired", TRUE)

revoke_access(ss) ==
    DictSet(DictSet(ss, "password_correct", FALSE), "password_expired", TRUE)

(***************************************************************************)
(* core/logger.py.  The log file is None while it does not exist and       *)
(* Some(text) when it does; a text is the JSON of a log, or the empty text *)
(* of a file that open(..., 'w') has just truncated.                       *)
(***************************************************************************)
LOGGING_CONFIG ==
    [log_file |-> "letter_generation_log.json",
     max_file_size_mb |-> 10,
     max_entries |-> 500,
     dangerous_chars |-> {"<", ">", "\"", "'", "&", ";", "(", ")", "{", "}", "[", "]"},
     max_input_length |-> 500]

\* sanitize_input (core/security.py) with the default max_length
sanitize_input(text) ==
    LET sanitized == SelectSeq(text, LAMBDA c : c \notin LOGGING_CONFIG.dangerous_chars)
    IN  SubSeq(sanitized, 1, IF Len(sanitized) < LOGGING_CONFIG.max_input_length
                             THEN Len(sanitized) ELSE LOGGING_CONFIG.max_input_length)

\* json.dump(log_data, f): the text of a log; json.load gives the log back
JsonText(log_data) == [json |-> TRUE, letters |-> log_data.letters]
EmptyText == [json |-> FALSE, letters |-> <<>>]

\* a list of add-on keys so long that one entry holding it takes more than
\* max_file_size_mb; every other entry is taken to be small, 500 of them
\* staying under the limit
HugeAddOns == <<"(more than 10 MB of add-on keys)">>

\* AuditLogger._check_file_size
_check_file_size(file) ==
    IF file # None /\ file[1].json
    THEN ~\E i \in 1..Len(file[1].letters) : file[1].letters[i].add_ons = HugeAddOns
    ELSE TRUE

\* AuditLogger._load_log
_load_log(file) ==
    IF file # None /\ file[1].json THEN [letters |-> file[1].letters]
    ELSE [letters |-> <<>>]

\* AuditLogger._save_log
_save_log(log_data) == Some(JsonText(log_data))

\* the two steps of _save_log that other sessions can see apart: open(...,
\* 'w') leaves an empty file (line 232)
_save_logOpen(file) == Some(EmptyText)

\* json.dump and the close of the file write the text from the start of the
\* file (line 233).  Entries are taken to be equally long: over a text with
\* more entries, written by another session since the open, the shorter text
\* leaves the end of the longer one behind it, which is not JSON.
_save_logDump(file, log_data) ==
    IF Len(file[1].letters) > Len(log_data.letters)
    THEN Some([json |-> FALSE, letters |-> file[1].letters])
    ELSE Some(JsonText(log_data))

\* AuthenticationManager.get_current_user_role (core/security.py)
get_current_user_role(ss) == DictGet(ss, "user_role", "Unknown")

\* AuthenticationManager.get_session_id: the session state it leaves
get_session_id(ss, clock) ==
    IF "session_id" \notin DOMAIN ss THEN DictSet(ss, "session_id", clock) ELSE ss

\* LetterGenerationLog.create(...).to_dict() as log_letter_generation calls it
LogEntry(company_name, meeting_name, document_type, booth_selected, add_ons, total_cost, additional_info, mode, user_role, session_id, clock) ==
    [timestamp |-> clock,
     company_name |-> sanitize_input(company_name),
     meeting_name |-> sanitize_input(meeting_name),
     document_type |-> sanitize_input(document_type),
     booth_selected |-> booth_selected,
     add_ons |-> add_ons,
     total_cost |-> total_cost,
     additional_info |-> <<"[">> \o mode \o <<"]", " ">> \o sanitize_input(additional_info),
     user_role |-> user_role,
     session_id |-> session_id]

\* lines 96-101: the entry is appended and the log rotated
AppendAndRotateKeepsOldest(log_data, log_entry) ==
    LET letters == Append(log_data.letters, log_entry)
    IN  IF Len(letters) > LOGGING_CONFIG.max_entries
        THEN [letters |-> SubSeq(letters, 1, LOGGING_CONFIG.max_entries)]
        ELSE [letters |-> letters]

AppendAndRotate(log_data, log_entry) ==
    LET letters == Append(log_data.letters, log_entry)
    IN  IF Len(letters) > LOGGING_CONFIG.max_entries
        THEN [letters |-> SubSeq(letters, Len(letters) - LOGGING_CONFIG.max_entries + 1,
                                 Len(letters))]
        ELSE [letters |-> letters]

\* AuditLogger.get_all_logs
get_all_logs(file) == _load_log(file).letters

\* all_logs[-limit:] as Python slices: a negative start counts from the end
\* and is clamped to the beginning, a start of -0 is the beginning
SliceLast(all_logs, lim) ==
    LET start == 0 - lim
        from == IF start < 0
                THEN (IF Len(all_logs) + start < 0 THEN 0 ELSE Len(all_logs) + start)
                ELSE (IF start > Len(all_logs) THEN Len(all_logs) ELSE start)
    IN  SubSeq(all_logs, from + 1, Len(all_logs))

\* list(reversed(...))
Reversed(s) == [i \in 1..Len(s) |-> s[Len(s) + 1 - i]]

\* AuditLogger.get_recent_logs
get_recent_logs(file, lim) == Reversed(SliceLast(get_all_logs(file), lim))

(***************************************************************************)
(* Inputs                                                                  *)
(***************************************************************************)
MaxAddOns == 2
MaxQuot == 153
MaxCalls == 3

SeqsUpTo(S, n) == UNION {[1..k -> S] : k \in 0..n}

BoothTierInputs == DOMAIN BOOTH_TIER_LABELS \cup {"unknown_tier"}
AddOnKeyInputs == {"program_ad_full", "charging_stations", "email_banner",
                   "non_cme_session", "unknown_addon"}
YearInputs == {-1, 0, 2024, 2025, 2026, 2027}
DiscountKeyInputs == DOMAIN DISCOUNT_OPTIONS \cup {"unknown_discount"}
CustomTotalInputs == {None, Some(0), Some(Dollars(-25)), Some(Dollars(7525)),
                      Some(752499), Some(Dollars(10350)), Some(Dollars(200000))}
\* amounts around every multiple of 50 dollars from -100 to 50 * MaxQuot
AmountInputs == {Dollars(50) * k + off : k \in (-2)..MaxQuot,
                 off \in {0, 1, 2499, 2500, 2501, 3750, 4999}}

NoResult == [pending |-> TRUE]

\* the parts of the state a specification does not exercise
MatcherIdle == events = ALL_EVENTS /\ event_name = <<>> /\ limit = 0
PricingIdle ==
    /\ secrets = NoSecrets
    /\ booth_tier = "(no booth)"
    /\ add_on_keys = <<>>
    /\ event_year = 2025
    /\ discount_key = "none"
    /\ custom_total = None
    /\ amount = 0
RequestsIdle == threads = <<>> /\ lists = <<>>
BulkIdle ==
    /\ rows = <<>>
    /\ idx = 0
    /\ generated_count = 0
    /\ error_count = 0
    /\ errors = <<>>
    /\ zip_file = <<>>

PackageIdle == events_configs = <<>> /\ package = <<>>
AuthIdle == session_state = <<>> /\ now = 0
LogIdle == log_file = <<>>

(***************************************************************************)
(* Operations                                                              *)
(***************************************************************************)
CalculatePricingDiscountsSharedTable(btier, keys, year, dkey, ctotal) ==
    /\ result' = calculate_pricing(secrets, btier, keys, year, dkey, ctotal)
    /\ booth_tier' = btier
    /\ add_on_keys' = keys
    /\ event_year' = year
    /\ discount_key' = dkey
    /\ custom_total' = ctotal
    /\ pc' = "priced"
    /\ calls' = Append(calls, [op |-> "calculate_pricing",
                               args |-> <<btier, keys, year, dkey, ctotal>>,
                               result |-> result'])
    /\ LET bp == get_booth_prices(secrets)
       IN  secrets' = [secrets EXCEPT !.booth_prices =
                          [k \in DOMAIN bp |->
                              IF k = btier THEN Times(bp[k], result'.discount_multiplier)
                              ELSE bp[k]]]
    /\ UNCHANGED <<amount, matcherVars, requestVars, bulkVars,
                   packageVars, authVars, logVars>>

\* one call of PricingEngine.calculate_pricing
CalculatePricing(btier, keys, year, dkey, ctotal) ==
    /\ result' = calculate_pricing(secrets, btier, keys, year, dkey, ctotal)
    /\ booth_tier' = btier
    /\ add_on_keys' = keys
    /\ event_year' = year
    /\ discount_key' = dkey
    /\ custom_total' = ctotal
    /\ pc' = "priced"
    /\ calls' = Append(calls, [op |-> "calculate_pricing",
                               args |-> <<btier, keys, year, dkey, ctotal>>,
                               result |-> result'])
    /\ UNCHANGED <<secrets, amount, matcherVars, requestVars, bulkVars,
                   packageVars, authVars, logVars>>

\* one call of round_nearest_50
RoundNearest50(a) ==
    /\ result' = [rounded |-> round_nearest_50(a)]
    /\ amount' = a
    /\ pc' = "rounded"
    /\ calls' = Append(calls, [op |-> "round_nearest_50", args |-> <<a>>,
                               result |-> result'])
    /\ UNCHANGED <<secrets, booth_tier, add_on_keys, event_year, discount_key, custom_total,
                   matcherVars, requestVars, bulkVars,
                   packageVars, authVars, logVars>>

(***************************************************************************)
(* Spec: one call, its arguments drawn at the start                        *)
(***************************************************************************)
Init ==
    /\ secrets = NoSecrets
    /\ result = NoResult
    /\ calls = <<>>
    /\ MatcherIdle /\ RequestsIdle /\ BulkIdle
    /\ PackageIdle /\ AuthIdle /\ LogIdle
    /\ \/ /\ pc = "calculate_pricing"
          /\ booth_tier \in BoothTierInputs
          /\ add_on_keys \in SeqsUpTo(AddOnKeyInputs, MaxAddOns)
          /\ event_year \in YearInputs
          /\ discount_key \in DiscountKeyInputs
          /\ custom_total \in CustomTotalInputs
          /\ amount = 0
       \/ /\ pc = "round_nearest_50"
          /\ booth_tier = "(no booth)"
          /\ add_on_keys = <<>>
          /\ event_year = 2025
          /\ discount_key = "none"
          /\ custom_total = None
          /\ amount \in AmountInputs

Next ==
    \/ /\ pc = "calculate_pricing"
       /\ CalculatePricing(booth_tier, add_on_keys, event_year, discount_key, custom_total)
    \/ /\ pc = "round_nearest_50"
       /\ RoundNearest50(amount)

Spec == Init /\ [][Next]_vars

(***************************************************************************)
(* SpecSession: a process serving up to MaxCalls calls, one after another  *)
(***************************************************************************)
SessionPricingInputs ==
    {<<"standard_2d", ks, y, dk, Some(Dollars(5025))>> :
        ks \in {<<>>, <<"charging_stations">>}, y \in {2025, 2026},
        dk \in {"minus_10", "custom"}}
SessionAmountInputs == {Dollars(7525), Dollars(7575), 752499, 0}

SessionInit ==
    /\ secrets = NoSecrets
    /\ result = NoResult
    /\ calls = <<>>
    /\ MatcherIdle /\ RequestsIdle /\ BulkIdle
    /\ PackageIdle /\ AuthIdle /\ LogIdle
    /\ pc = "idle"
    /\ booth_tier = "(no booth)"
    /\ add_on_keys = <<>>
    /\ event_year = 2025
    /\ discount_key = "none"
    /\ custom_total = None
    /\ amount = 0

SessionNext ==
    \/ /\ Len(calls) < MaxCalls
       /\ \E a \in SessionPricingInputs : CalculatePricing(a[1], a[2], a[3], a[4], a[5])
    \/ /\ Len(calls) < MaxCalls
       /\ \E a \in SessionAmountInputs : RoundNearest50(a)

SpecSession == SessionInit /\ [][SessionNext]_vars

(***************************************************************************)
(* SpecMatcher: one call of the event matcher, its arguments drawn at the  *)
(* start                                                                   *)
(***************************************************************************)
MaxQueryWords == 2
MaxLimit == 2

\* "2026", "ASCO", "Denver"
QueryWords == {<<"2","0","2","6">>, <<"A","S","C","O">>, <<"D","e","n","v","e","r">>}
\* every query of up to MaxQueryWords of these words, the empty query included
WordQueries == {Join(ws) : ws \in SeqsUpTo(QueryWords, MaxQueryWords)}

CatalogNames == {ALL_EVENTS[i].meeting_name : i \in 1..Len(ALL_EVENTS)}

\* the name of an event as a sheet written in the older convention has it
BestOfAsco(name) ==
    Replace(name, <<"A","S","C","O"," ","D","i","r","e","c","t">>,
                  <<"B","e","s","t"," ","o","f"," ","A","S","C","O">>)
BestOfAscoQueries == {BestOfAsco(n) : n \in CatalogNames} \ CatalogNames

\* "2026 MDONS Conference Denver ASCO Direct"  stage 1 finds "2026 MDONS Conference", stage 3 alone would take "2026 ASCO Direct Denver"
QueryStageOneBeatsKeyword ==
    <<"2","0","2","6"," ","M","D","O","N","S"," ","C","o","n","f","e","r","e","n","c","e"," ","D","e","n","v","e","r"," ","A","S","C","O"," ","D","i","r","e","c","t">>
\* "  2026 Oncology  Clinical Updates (em dash) Review(tab)and Renew Sedona "  an em dash, a tab and doubled spaces
QueryDashesAndSpaces ==
    <<" "," ","2","0","2","6"," ","O","n","c","o","l","o","g","y"," "," ","C","l","i","n","i","c","a","l"," ","U","p","d","a","t","e","s"," ",EM_DASH," ","R","e","v","i","e","w","\t","a","n","d"," ","R","e","n","e","w"," ","S","e","d","o","n","a"," ">>
\* "2026 Oncology Clinical Updates (en dash) Review and Renew Sedona"  an en dash for the hyphen
QueryEnDash ==
    <<"2","0","2","6"," ","O","n","c","o","l","o","g","y"," ","C","l","i","n","i","c","a","l"," ","U","p","d","a","t","e","s"," ",EN_DASH," ","R","e","v","i","e","w"," ","a","n","d"," ","R","e","n","e","w"," ","S","e","d","o","n","a">>
\* "2026 BEST OF ASCO Denver"
QueryBestOfAscoUpper ==
    <<"2","0","2","6"," ","B","E","S","T"," ","O","F"," ","A","S","C","O"," ","D","e","n","v","e","r">>
\* "ASCO Direct Denver"  three words of one entry, and a part of its name
QueryThreeWordsOfOne ==
    <<"A","S","C","O"," ","D","i","r","e","c","t"," ","D","e","n","v","e","r">>
\* "ASCO Direct"  two words of many entries, and a part of their names
QueryTwoWords ==
    <<"A","S","C","O"," ","D","i","r","e","c","t">>

HandPickedQueries ==
    {QueryStageOneBeatsKeyword, QueryDashesAndSpaces, QueryEnDash, QueryBestOfAscoUpper, QueryThreeWordsOfOne, QueryTwoWords,
     \* ""
     <<>>,
     \* "   "
     <<" "," "," ">>,
     \* " (tab) "
     <<" ","\t"," ">>,
     \* "asco direct denver"
     <<"a","s","c","o"," ","d","i","r","e","c","t"," ","d","e","n","v","e","r">>,
     \* "2026 ASCO DIRECT DENVER"
     <<"2","0","2","6"," ","A","S","C","O"," ","D","I","R","E","C","T"," ","D","E","N","V","E","R">>,
     \* "Denver"
     <<"D","e","n","v","e","r">>,
     \* "2026"
     <<"2","0","2","6">>,
     \* "best"
     <<"b","e","s","t">>,
     \* "bestbest"
     <<"b","e","s","t","b","e","s","t">>,
     \* "Bestow 2026"
     <<"B","e","s","t","o","w"," ","2","0","2","6">>,
     \* "2026 ASCO Direct Denver, CO - Exhibitor"
     <<"2","0","2","6"," ","A","S","C","O"," ","D","i","r","e","c","t"," ","D","e","n","v","e","r",","," ","C","O"," ","-"," ","E","x","h","i","b","i","t","o","r">>,
     \* "2026  ASCO  Direct   Denver"
     <<"2","0","2","6"," "," ","A","S","C","O"," "," ","D","i","r","e","c","t"," "," "," ","D","e","n","v","e","r">>,
     \* "2026 Breast Conference"
     <<"2","0","2","6"," ","B","r","e","a","s","t"," ","C","o","n","f","e","r","e","n","c","e">>,
     \* "Best of Best of ASCO Hawaii 2026"
     <<"B","e","s","t"," ","o","f"," ","B","e","s","t"," ","o","f"," ","A","S","C","O"," ","H","a","w","a","i","i"," ","2","0","2","6">>,
     \* "2026 Denver June ASCO"
     <<"2","0","2","6"," ","D","e","n","v","e","r"," ","J","u","n","e"," ","A","S","C","O">>,
     \* "Direct 2026 xx ASCO"
     <<"D","i","r","e","c","t"," ","2","0","2","6"," ","x","x"," ","A","S","C","O">>,
     \* "2026 Denver June"
     <<"2","0","2","6"," ","D","e","n","v","e","r"," ","J","u","n","e">>,
     \* "NonExistent Event 2099"
     <<"N","o","n","E","x","i","s","t","e","n","t"," ","E","v","e","n","t"," ","2","0","9","9">>,
     \* "Cancer Updates GI and Breast"
     <<"C","a","n","c","e","r"," ","U","p","d","a","t","e","s"," ","G","I"," ","a","n","d"," ","B","r","e","a","s","t">>,
     \* "June Denver 2026 ASCO Direct meeting"
     <<"J","u","n","e"," ","D","e","n","v","e","r"," ","2","0","2","6"," ","A","S","C","O"," ","D","i","r","e","c","t"," ","m","e","e","t","i","n","g">>,
     \* "USA ESMO 2025 East West"
     <<"U","S","A"," ","E","S","M","O"," ","2","0","2","5"," ","E","a","s","t"," ","W","e","s","t">>}

\* what sheets say: odd queries for every operation, names of the catalog in
\* both conventions for match_event and match_with_confidence as well
ShortQueryInputs == WordQueries \cup HandPickedQueries
QueryInputs == CatalogNames \cup BestOfAscoQueries \cup ShortQueryInputs
LimitInputs == 0..MaxLimit

\* one call of EventMatcher.match_event
MatchEvent(name) ==
    /\ result' = [event |-> match_event(events, name)]
    /\ event_name' = name
    /\ pc' = "matched"
    /\ UNCHANGED <<secrets, booth_tier, add_on_keys, event_year, discount_key, custom_total,
                   amount, calls, events, limit, requestVars, bulkVars,
                   packageVars, authVars, logVars>>

\* one call of EventMatcher.match_with_confidence
MatchWithConfidence(name) ==
    /\ LET matched == match_with_confidence(events, name)
       IN  result' = [event |-> matched[1], confidence |-> matched[2]]
    /\ event_name' = name
    /\ pc' = "matched_with_confidence"
    /\ UNCHANGED <<secrets, booth_tier, add_on_keys, event_year, discount_key, custom_total,
                   amount, calls, events, limit, requestVars, bulkVars,
                   packageVars, authVars, logVars>>

\* one call of EventMatcher.find_similar_events
FindSimilarEvents(name, lim) ==
    /\ result' = [similar |-> find_similar_events(events, name, lim)]
    /\ event_name' = name
    /\ limit' = lim
    /\ pc' = "found_similar"
    /\ UNCHANGED <<secrets, booth_tier, add_on_keys, event_year, discount_key, custom_total,
                   amount, calls, events, requestVars, bulkVars,
                   packageVars, authVars, logVars>>

MatcherInit ==
    /\ PricingIdle /\ RequestsIdle /\ BulkIdle
    /\ PackageIdle /\ AuthIdle /\ LogIdle
    /\ result = NoResult
    /\ calls = <<>>
    /\ events = ALL_EVENTS
    /\ \/ pc = "match_with_confidence" /\ event_name \in QueryInputs /\ limit = 0
       \/ pc = "match_event" /\ event_name \in QueryInputs /\ limit = 0
       \/ pc = "find_similar_events" /\ event_name \in ShortQueryInputs /\ limit \in LimitInputs

MatcherNext ==
    \/ /\ pc = "match_event"
       /\ MatchEvent(event_name)
    \/ /\ pc = "match_with_confidence"
       /\ MatchWithConfidence(event_name)
    \/ /\ pc = "find_similar_events"
       /\ FindSimilarEvents(event_name, limit)

SpecMatcher == MatcherInit /\ [][MatcherNext]_vars

(***************************************************************************)
(* SpecBulk: the bulk driver working through the rows of a sheet           *)
(***************************************************************************)
MaxRows == 2

\* "Booth 12  - Acme, Inc. ", "2026 ASCO Direct Denver", "$7,500.00"
RowGenerated ==
    [exhibitor_invite |-> <<"B","o","o","t","h"," ","1","2"," "," ","-"," ","A","c","m","e",","," ","I","n","c","."," ">>,
     event_name |-> <<"2","0","2","6"," ","A","S","C","O"," ","D","i","r","e","c","t"," ","D","e","n","v","e","r">>,
     total_str |-> <<"$","7",",","5","0","0",".","0","0">>,
     build_raises |-> FALSE]

\* "Invite_K", "2026 Denver June ASCO", " 1500 "
RowKeywordGenerated ==
    [exhibitor_invite |-> <<"I","n","v","i","t","e","_","K">>,
     event_name |-> <<"2","0","2","6"," ","D","e","n","v","e","r"," ","J","u","n","e"," ","A","S","C","O">>,
     total_str |-> <<" ","1","5","0","0"," ">>,
     build_raises |-> FALSE]

\* "Invite B", "NonExistent Event 2099", "$1,500.00"
RowUnmatched ==
    [exhibitor_invite |-> <<"I","n","v","i","t","e"," ","B">>,
     event_name |-> <<"N","o","n","E","x","i","s","t","e","n","t"," ","E","v","e","n","t"," ","2","0","9","9">>,
     total_str |-> <<"$","1",",","5","0","0",".","0","0">>,
     build_raises |-> FALSE]

\* "Invite C", "2026 Best of ASCO Denver", "TBD"
RowBadTotal ==
    [exhibitor_invite |-> <<"I","n","v","i","t","e"," ","C">>,
     event_name |-> <<"2","0","2","6"," ","B","e","s","t"," ","o","f"," ","A","S","C","O"," ","D","e","n","v","e","r">>,
     total_str |-> <<"T","B","D">>,
     build_raises |-> FALSE]

\* "Invite D", "NonExistent Event 2099", ""
RowUnmatchedBadTotal ==
    [exhibitor_invite |-> <<"I","n","v","i","t","e"," ","D">>,
     event_name |-> <<"N","o","n","E","x","i","s","t","e","n","t"," ","E","v","e","n","t"," ","2","0","9","9">>,
     total_str |-> <<>>,
     build_raises |-> FALSE]

\* "Invite E", "2026 MDONS Conference", "2,000", and the document builder raises
RowBuildRaises ==
    [exhibitor_invite |-> <<"I","n","v","i","t","e"," ","E">>,
     event_name |-> <<"2","0","2","6"," ","M","D","O","N","S"," ","C","o","n","f","e","r","e","n","c","e">>,
     total_str |-> <<"2",",","0","0","0">>,
     build_raises |-> TRUE]

RowInputs == {RowGenerated, RowKeywordGenerated, RowUnmatched, RowBadTotal,
              RowUnmatchedBadTotal, RowBuildRaises}

\* the outcome of the try block for a row: the error it reports, or the
\* event its documents are written for
RowOutcome(row) ==
    IF ~FloatParses(StripMoney(row.total_str))
    THEN [error |-> "ValueError"]
    ELSE LET matched == matching_event(row.event_name)
         IN  IF matched = None THEN [error |-> "not found in system"]
             ELSE IF row.build_raises THEN [error |-> "Exception"]
             ELSE [event |-> matched[1]]

\* the two entries zip_file.writestr adds for a row
ArchiveEntries(row, event) ==
    <<[name |-> <<"Word_Documents/", safe_filename(row.exhibitor_invite), ".docx">>,
       meeting_name |-> EVENTS[event].meeting_name],
      [name |-> <<"PDF_Documents/", safe_filename(row.exhibitor_invite), ".pdf">>,
       meeting_name |-> EVENTS[event].meeting_name]>>

BulkRowAbortsOnError ==
    /\ pc = "bulk_loop"
    /\ idx < Len(rows)
    /\ LET row == rows[idx + 1]
           outcome == RowOutcome(row)
       IN  IF "error" \in DOMAIN outcome
           THEN /\ errors' = Append(errors, [row |-> idx + 2, message |-> outcome.error])
                /\ error_count' = error_count + 1
                /\ idx' = Len(rows)
                /\ UNCHANGED <<generated_count, zip_file>>
           ELSE /\ zip_file' = zip_file \o ArchiveEntries(row, outcome.event)
                /\ generated_count' = generated_count + 1
                /\ idx' = idx + 1
                /\ UNCHANGED <<error_count, errors>>
    /\ UNCHANGED <<secrets, booth_tier, add_on_keys, event_year, discount_key, custom_total,
                   amount, result, pc, calls, matcherVars, requestVars, rows,
                   packageVars, authVars, logVars>>

\* one turn of "for idx, row in df.iterrows()"
BulkRow ==
    /\ pc = "bulk_loop"
    /\ idx < Len(rows)
    /\ LET row == rows[idx + 1]
           outcome == RowOutcome(row)
       IN  IF "error" \in DOMAIN outcome
           THEN /\ errors' = Append(errors, [row |-> idx + 2, message |-> outcome.error])
                /\ error_count' = error_count + 1
                /\ UNCHANGED <<generated_count, zip_file>>
           ELSE /\ zip_file' = zip_file \o ArchiveEntries(row, outcome.event)
                /\ generated_count' = generated_count + 1
                /\ UNCHANGED <<error_count, errors>>
    /\ idx' = idx + 1
    /\ UNCHANGED <<secrets, booth_tier, add_on_keys, event_year, discount_key, custom_total,
                   amount, result, pc, calls, matcherVars, requestVars, rows,
                   packageVars, authVars, logVars>>

\* the loop has ended: the archive is closed and offered for download
BulkFinish ==
    /\ pc = "bulk_loop"
    /\ idx = Len(rows)
    /\ pc' = "bulk_done"
    /\ UNCHANGED <<secrets, booth_tier, add_on_keys, event_year, discount_key, custom_total,
                   amount, result, calls, matcherVars, requestVars, bulkVars,
                   packageVars, authVars, logVars>>

BulkInit ==
    /\ PricingIdle /\ MatcherIdle /\ RequestsIdle
    /\ PackageIdle /\ AuthIdle /\ LogIdle
    /\ result = NoResult
    /\ calls = <<>>
    /\ pc = "bulk_loop"
    /\ rows \in SeqsUpTo(RowInputs, MaxRows)
    /\ idx = 0
    /\ generated_count = 0
    /\ error_count = 0
    /\ errors = <<>>
    /\ zip_file = <<>>

BulkNext == BulkRow \/ BulkFinish

SpecBulk == BulkInit /\ [][BulkNext]_vars

(***************************************************************************)
(* SpecConcurrent: requests served at the same time.  Each runs one call   *)
(* and is scheduled between its reads of the configuration and of the      *)
(* catalog: calculate_pricing between its two table reads and its          *)
(* arithmetic, a matcher call between its guard and its stages.            *)
(***************************************************************************)
MaxThreads == 2

\* "2026 Denver June ASCO"
QueryKeyword ==
    <<"2","0","2","6"," ","D","e","n","v","e","r"," ","J","u","n","e"," ","A","S","C","O">>

ConcurrentCalls ==
    {[op |-> "calculate_pricing",
      args |-> <<"standard_2d", <<"charging_stations">>, 2026, "minus_10", None>>],
     [op |-> "match_with_confidence", args |-> <<QueryBestOfAscoUpper>>],
     [op |-> "match_event", args |-> <<QueryKeyword>>],
     [op |-> "match_event", args |-> <<(<<" ">>)>>]}

\* a request that has not started its call
NewThread(call) ==
    [call |-> call,
     pc |-> IF call.op = "calculate_pricing" THEN "get_booth_prices" ELSE "guard",
     booth_prices |-> <<>>,
     add_ons_pricing |-> <<>>,
     result |-> NoResult]

\* what a matcher call answers with
MatchResult(call, matched, confidence) ==
    IF call.op = "match_event" THEN [event |-> matched]
    ELSE [event |-> matched, confidence |-> confidence]

\* line 45: booth_prices = get_booth_prices()
GetBoothPrices(t) ==
    /\ threads[t].pc = "get_booth_prices"
    /\ threads' = [threads EXCEPT ![t].booth_prices = get_booth_prices(secrets),
                                  ![t].pc = "get_add_ons_pricing"]
    /\ UNCHANGED <<secrets, booth_tier, add_on_keys, event_year, discount_key, custom_total,
                   amount, result, pc, calls, matcherVars, lists, bulkVars,
                   packageVars, authVars, logVars>>

\* line 46: add_ons_pricing = get_add_ons_pricing(event_year)
GetAddOnsPricing(t) ==
    /\ threads[t].pc = "get_add_ons_pricing"
    /\ threads' = [threads EXCEPT
                      ![t].add_ons_pricing = get_add_ons_pricing(secrets, threads[t].call.args[3]),
                      ![t].pc = "compute"]
    /\ UNCHANGED <<secrets, booth_tier, add_on_keys, event_year, discount_key, custom_total,
                   amount, result, pc, calls, matcherVars, lists, bulkVars,
                   packageVars, authVars, logVars>>

\* lines 48-91: the arithmetic and the return
ComputePricing(t) ==
    /\ threads[t].pc = "compute"
    /\ LET a == threads[t].call.args
       IN  threads' = [threads EXCEPT
                          ![t].result = PricingFromTables(threads[t].booth_prices,
                                                          threads[t].add_ons_pricing,
                                                          a[1], a[2], a[4], a[5]),
                          ![t].pc = "done"]
    /\ UNCHANGED <<secrets, booth_tier, add_on_keys, event_year, discount_key, custom_total,
                   amount, result, pc, calls, matcherVars, lists, bulkVars,
                   packageVars, authVars, logVars>>

\* "if not event_name or not event_name.strip(): return None"
MatchGuard(t) ==
    /\ threads[t].pc = "guard"
    /\ LET name == threads[t].call.args[1]
       IN  IF name = <<>> \/ Strip(name) = <<>>
           THEN threads' = [threads EXCEPT
                               ![t].result = MatchResult(threads[t].call, None, "none"),
                               ![t].pc = "done"]
           ELSE threads' = [threads EXCEPT ![t].pc = "stage1"]
    /\ UNCHANGED <<secrets, booth_tier, add_on_keys, event_year, discount_key, custom_total,
                   amount, result, pc, calls, matcherVars, lists, bulkVars,
                   packageVars, authVars, logVars>>

\* "Stage 1": the request reads the catalog as it is now
MatchStage1(t) ==
    /\ threads[t].pc = "stage1"
    /\ LET matched == _exact_partial_match(events, threads[t].call.args[1])
       IN  IF matched # None
           THEN threads' = [threads EXCEPT
                               ![t].result = MatchResult(threads[t].call, matched, "exact"),
                               ![t].pc = "done"]
           ELSE threads' = [threads EXCEPT ![t].pc = "stage2"]
    /\ UNCHANGED <<secrets, booth_tier, add_on_keys, event_year, discount_key, custom_total,
                   amount, result, pc, calls, matcherVars, lists, bulkVars,
                   packageVars, authVars, logVars>>

MatchStage2NormalizesCatalog(t) ==
    /\ threads[t].pc = "stage2"
    /\ LET matched == _normalized_match(events, threads[t].call.args[1])
       IN  IF matched # None
           THEN threads' = [threads EXCEPT
                               ![t].result = MatchResult(threads[t].call, matched, "normalized"),
                               ![t].pc = "done"]
           ELSE threads' = [threads EXCEPT ![t].pc = "stage3"]
    /\ events' = [i \in 1..Len(events) |->
                     [events[i] EXCEPT !.meeting_name = _normalize_name(@)]]
    /\ UNCHANGED <<secrets, booth_tier, add_on_keys, event_year, discount_key, custom_total,
                   amount, result, pc, calls, event_name, limit, lists, bulkVars,
                   packageVars, authVars, logVars>>

\* "Stage 2"
MatchStage2(t) ==
    /\ threads[t].pc = "stage2"
    /\ LET matched == _normalized_match(events, threads[t].call.args[1])
       IN  IF matched # None
           THEN threads' = [threads EXCEPT
                               ![t].result = MatchResult(threads[t].call, matched, "normalized"),
                               ![t].pc = "done"]
           ELSE threads' = [threads EXCEPT ![t].pc = "stage3"]
    /\ UNCHANGED <<secrets, booth_tier, add_on_keys, event_year, discount_key, custom_total,
                   amount, result, pc, calls, matcherVars, lists, bulkVars,
                   packageVars, authVars, logVars>>

\* "Stage 3" and the final return
MatchStage3(t) ==
    /\ threads[t].pc = "stage3"
    /\ LET matched == _keyword_match(events, threads[t].call.args[1])
       IN  threads' = [threads EXCEPT
                          ![t].result = MatchResult(threads[t].call, matched,
                                                    IF matched # None THEN "keyword" ELSE "none"),
                          ![t].pc = "done"]
    /\ UNCHANGED <<secrets, booth_tier, add_on_keys, event_year, discount_key, custom_total,
                   amount, result, pc, calls, matcherVars, lists, bulkVars,
                   packageVars, authVars, logVars>>

ConcurrentInit ==
    /\ PricingIdle /\ MatcherIdle /\ BulkIdle
    /\ PackageIdle /\ AuthIdle /\ LogIdle
    /\ result = NoResult
    /\ calls = <<>>
    /\ lists = <<>>
    /\ pc = "concurrent"
    /\ \E cs \in [1..MaxThreads -> ConcurrentCalls] :
           threads = [t \in 1..MaxThreads |-> NewThread(cs[t])]

ConcurrentNext ==
    \E t \in DOMAIN threads :
        \/ GetBoothPrices(t)
        \/ GetAddOnsPricing(t)
        \/ ComputePricing(t)
        \/ MatchGuard(t)
        \/ MatchStage1(t)
        \/ MatchStage2(t)
        \/ MatchStage3(t)

SpecConcurrent == ConcurrentInit /\ [][ConcurrentNext]_vars

(***************************************************************************)
(* SpecOwnership: callers keeping the objects their calls returned.  An    *)
(* Event is an object of the catalog and a list is an object of the heap   *)
(* `lists'; a reference to either is its position.                         *)
(***************************************************************************)
MaxHeld == 2

\* "2026 MDONS Conference"
QueryOtherEvent ==
    <<"2","0","2","6"," ","M","D","O","N","S"," ","C","o","n","f","e","r","e","n","c","e">>

OwnershipQueries == {QueryThreeWordsOfOne, QueryBestOfAscoUpper, QueryOtherEvent}

\* the object a held result lets its caller reach, as it is now
HeldValue(call) ==
    IF call.op = "calculate_pricing" THEN lists[call.result.add_on_keys.ref]
    ELSE IF call.result.event = None THEN None
    ELSE events[call.result.event[1]]

\* match_event returns the Event object of the catalog list itself
HoldMatchEvent(name) ==
    /\ Len(calls) < MaxHeld
    /\ LET matched == match_event(events, name)
       IN  calls' = Append(calls,
                           [op |-> "match_event", args |-> <<name>>,
                            result |-> [event |-> matched],
                            returned |-> IF matched = None THEN None ELSE events[matched[1]],
                            changed |-> FALSE])
    /\ UNCHANGED <<secrets, booth_tier, add_on_keys, event_year, discount_key, custom_total,
                   amount, result, pc, matcherVars, requestVars, bulkVars,
                   packageVars, authVars, logVars>>

\* calculate_pricing stores the list object it was given in its result
\* (add_on_keys=add_on_keys)
HoldCalculatePricing(keys_ref, dkey) ==
    /\ Len(calls) < MaxHeld
    /\ LET priced == calculate_pricing(secrets, "standard_2d", lists[keys_ref], 2026, dkey, None)
       IN  calls' = Append(calls,
                           [op |-> "calculate_pricing",
                            args |-> <<"standard_2d", [ref |-> keys_ref], 2026, dkey, None>>,
                            result |-> [priced EXCEPT !.add_on_keys = [ref |-> keys_ref]],
                            returned |-> lists[keys_ref],
                            changed |-> FALSE])
    /\ UNCHANGED <<secrets, booth_tier, add_on_keys, event_year, discount_key, custom_total,
                   amount, result, pc, matcherVars, requestVars, bulkVars,
                   packageVars, authVars, logVars>>

\* a caller sets a field of the event it was given
CallerChangesEvent(h) ==
    /\ h \in 1..Len(calls)
    /\ calls[h].op = "match_event"
    /\ calls[h].result.event # None
    /\ events[calls[h].result.event[1]].venue # "(changed by the caller)"
    /\ events' = [events EXCEPT ![calls[h].result.event[1]].venue = "(changed by the caller)"]
    /\ calls' = [calls EXCEPT ![h].changed = TRUE]
    /\ UNCHANGED <<secrets, booth_tier, add_on_keys, event_year, discount_key, custom_total,
                   amount, result, pc, event_name, limit, requestVars, bulkVars,
                   packageVars, authVars, logVars>>

\* a caller appends a key to the list its pricing result holds
CallerChangesKeys(h) ==
    /\ h \in 1..Len(calls)
    /\ calls[h].op = "calculate_pricing"
    /\ Len(lists[calls[h].result.add_on_keys.ref]) <= MaxAddOns
    /\ lists' = [lists EXCEPT ![calls[h].result.add_on_keys.ref] = Append(@, "email_banner")]
    /\ calls' = [calls EXCEPT ![h].changed = TRUE]
    /\ UNCHANGED <<secrets, booth_tier, add_on_keys, event_year, discount_key, custom_total,
                   amount, result, pc, matcherVars, threads, bulkVars,
                   packageVars, authVars, logVars>>

OwnershipInit ==
    /\ PricingIdle /\ MatcherIdle /\ BulkIdle
    /\ PackageIdle /\ AuthIdle /\ LogIdle
    /\ result = NoResult
    /\ calls = <<>>
    /\ threads = <<>>
    /\ pc = "held"
    /\ lists \in {<<ks>> : ks \in {<<>>, <<"charging_stations">>}}

OwnershipNext ==
    \/ \E name \in OwnershipQueries : HoldMatchEvent(name)
    \/ \E l \in DOMAIN lists, dkey \in {"none", "minus_10"} : HoldCalculatePricing(l, dkey)
    \/ \E h \in 1..Len(calls) : CallerChangesEvent(h)
    \/ \E h \in 1..Len(calls) : CallerChangesKeys(h)

SpecOwnership == OwnershipInit /\ [][OwnershipNext]_vars

(***************************************************************************)
(* SpecPackage: one multi-meeting request, priced or built into a package, *)
(* or a package filled by its caller one add_event at a time               *)
(***************************************************************************)
MaxConfigs == 2
MaxAddEvents == 3

\* the events of test_multi_meeting_aggregation: no year in the name
TestEvent1 ==
    [meeting_name |-> <<"E","v","e","n","t"," ","1">>, meeting_date_long |-> "June 1, 2025",
     venue |-> "Venue 1", city_state |-> "City 1", default_tier |-> "standard_1d",
     expected_attendance |-> None]
TestEvent2 ==
    [meeting_name |-> <<"E","v","e","n","t"," ","2">>, meeting_date_long |-> "July 1, 2025",
     venue |-> "Venue 2", city_state |-> "City 2", default_tier |-> "standard_1d",
     expected_attendance |-> None]

ConfigInputs ==
    {[event |-> TestEvent1, booth_tier |-> "standard_1d", add_on_keys |-> <<>>],
     [event |-> TestEvent2, booth_tier |-> "standard_2d", add_on_keys |-> <<"program_ad_full">>],
     [event |-> EVENTS_2025[1], booth_tier |-> "platinum",
      add_on_keys |-> <<"charging_stations", "unknown_addon">>],
     [event |-> EVENTS_2026[1], booth_tier |-> "standard_2d",
      add_on_keys |-> <<"charging_stations", "email_banner">>],
     [event |-> EVENTS_2026[2], booth_tier |-> "(no booth)",
      add_on_keys |-> <<"charging_stations">>],
     [event |-> EVENTS_2026[3], booth_tier |-> "unknown_tier", add_on_keys |-> <<>>],
     [event |-> EVENTS_2026[1], add_on_keys |-> <<"charging_stations">>],
     [event |-> EVENTS_2025[2], booth_tier |-> "premier"]}

\* add_event(event, booth_price, addon_cost) as a caller may call it; the
\* last event is a dict that has a "booth_price" of its own
AddEventInputs ==
    {<<to_dict(TestEvent1), Dollars(5000), 0>>,
     <<to_dict(EVENTS_2026[1]), Dollars(7500), Dollars(3000)>>,
     <<to_dict(EVENTS_2025[1]), 0, Dollars(2000)>>,
     <<[meeting_name |-> <<"E","v","e","n","t"," ","3">>, booth_price |-> Dollars(1)],
       Dollars(10000), 1>>}

\* one call of PricingEngine.calculate_multi_meeting_pricing
CalculateMultiMeetingPricing ==
    /\ pc = "calculate_multi_meeting_pricing"
    /\ result' = calculate_multi_meeting_pricing(secrets, events_configs)
    /\ pc' = "multi_priced"
    /\ UNCHANGED <<secrets, booth_tier, add_on_keys, event_year, discount_key, custom_total,
                   amount, calls, matcherVars, requestVars, bulkVars,
                   packageVars, authVars, logVars>>

\* one call of MultiMeetingService.create_package
CreatePackage ==
    /\ pc = "create_package"
    /\ package' = create_package(secrets, "Acme Pharma", events_configs, "LOR", "", "")
    /\ result' = [package |-> package']
    /\ pc' = "package_created"
    /\ UNCHANGED <<secrets, booth_tier, add_on_keys, event_year, discount_key, custom_total,
                   amount, calls, matcherVars, requestVars, bulkVars,
                   events_configs, authVars, logVars>>

\* one call of MultiMeetingPackage.add_event
AddEvent(event, booth_price, addon_cost) ==
    /\ pc = "add_event"
    /\ Len(calls) < MaxAddEvents
    /\ package' = add_event(package, event, booth_price, addon_cost)
    /\ calls' = Append(calls, [op |-> "add_event", args |-> <<event, booth_price, addon_cost>>])
    /\ UNCHANGED <<secrets, booth_tier, add_on_keys, event_year, discount_key, custom_total,
                   amount, result, pc, matcherVars, requestVars, bulkVars,
                   events_configs, authVars, logVars>>

\* a deployment whose secrets give the platinum booth a price of its own
SecretsPlatinumPrice == [NoSecrets EXCEPT !.booth_prices = [platinum |-> Dollars(10025)]]

PackageInit ==
    /\ secrets \in {NoSecrets, SecretsPlatinumPrice}
    /\ booth_tier = "(no booth)"
    /\ add_on_keys = <<>>
    /\ event_year = 2025
    /\ discount_key = "none"
    /\ custom_total = None
    /\ amount = 0
    /\ MatcherIdle /\ RequestsIdle /\ BulkIdle
    /\ AuthIdle /\ LogIdle
    /\ result = NoResult
    /\ calls = <<>>
    /\ \/ /\ pc \in {"calculate_multi_meeting_pricing", "create_package"}
          /\ events_configs \in SeqsUpTo(ConfigInputs, MaxConfigs)
          /\ package = <<>>
       \/ /\ pc = "add_event"
          /\ events_configs = <<>>
          /\ package = MultiMeetingPackage("Acme Pharma", "LOR", None, None)

PackageNext ==
    \/ CalculateMultiMeetingPricing
    \/ CreatePackage
    \/ \E a \in AddEventInputs : AddEvent(a[1], a[2], a[3])

SpecPackage == PackageInit /\ [][PackageNext]_vars

(***************************************************************************)
(* SpecRowMatch: the bulk driver finding the event of one row, the matcher *)
(* holding the catalog the driver searches                                 *)
(***************************************************************************)
AppCatalogNames == {EVENTS[i].meeting_name : i \in 1..Len(EVENTS)}

\* "2026 Cancer Updates Dallas, TX": shares 3 words with the Princeton event (position 15) and 5 with the Dallas event (21)
RowNameKeywordFirstOfThree ==
    <<"2","0","2","6"," ","C","a","n","c","e","r"," ","U","p","d","a","t","e","s"," ","D","a","l","l","a","s",","," ","T","X">>

\* "Cancer Updates Houston, TX": shares 3 words with the Dallas event (21) and 4 with the Houston event (52)
RowNameKeywordHouston ==
    <<"C","a","n","c","e","r"," ","U","p","d","a","t","e","s"," ","H","o","u","s","t","o","n",","," ","T","X">>

\* "2026 Oncology Clinical Updates (minus sign) Review and Renew Sedona": the name of event 27 written with a minus sign (U+2212)
RowNameMinusSign ==
    <<"2","0","2","6"," ","O","n","c","o","l","o","g","y"," ","C","l","i","n","i","c","a","l"," ","U","p","d","a","t","e","s"," ",MINUS_SIGN," ","R","e","v","i","e","w"," ","a","n","d"," ","R","e","n","e","w"," ","S","e","d","o","n","a">>

\* "NonExistent Event 2099": the name of no event
RowNameUnknown ==
    <<"N","o","n","E","x","i","s","t","e","n","t"," ","E","v","e","n","t"," ","2","0","9","9">>

\* the Event Name cell of a row as str() gives it: a name of the catalog, the
\* names above, a name found by the keyword stage, an empty and a blank cell
RowNameInputs ==
    AppCatalogNames \cup {RowNameKeywordFirstOfThree, RowNameKeywordHouston, RowNameMinusSign,
                          RowNameUnknown, QueryKeyword, QueryBestOfAscoUpper, <<>>, <<" ">>}

\* lines 2195-2237 for one row: the event the inline loops select
MatchRow ==
    /\ pc = "row_match"
    /\ result' = [event |-> matching_event(event_name)]
    /\ pc' = "row_matched"
    /\ UNCHANGED <<secrets, booth_tier, add_on_keys, event_year, discount_key, custom_total,
                   amount, calls, matcherVars, requestVars, bulkVars,
                   packageVars, authVars, logVars>>

RowMatchInit ==
    /\ PricingIdle /\ RequestsIdle /\ BulkIdle
    /\ PackageIdle /\ AuthIdle /\ LogIdle
    /\ result = NoResult
    /\ calls = <<>>
    /\ events = EVENTS
    /\ limit = 0
    /\ pc = "row_match"
    /\ event_name \in RowNameInputs

RowMatchNext == MatchRow

SpecRowMatch == RowMatchInit /\ [][RowMatchNext]_vars

(***************************************************************************)
(* SpecAuth: one browser session.  The page calls check_password on every  *)
(* run; the user types into the password field when it is drawn; time      *)
(* passes; access is revoked.  `calls' is the history of the session.      *)
(***************************************************************************)
MaxAuthCalls == 4
MaxHours == 75

\* a deployment whose secrets set the main password
SecretsWithPassword ==
    [k \in DOMAIN NoSecrets \cup {"password"} |->
        IF k = "password" THEN "main-password" ELSE NoSecrets[k]]

PasswordInputs == {"", "main-password", "Sarah2025!"}
\* 24 + 24 hours is the expiry time itself, 24 + 25 is past it
HourInputs == {24, 25}

\* a run of the page: AuthenticationManager.check_password
CheckPassword ==
    /\ pc = "session"
    /\ Len(calls) < MaxAuthCalls
    /\ LET checked == check_password(session_state, now)
       IN  /\ session_state' = checked.session_state
           /\ result' = [returned |-> checked.returned]
           /\ calls' = Append(calls, [op |-> "check_password", at |-> now,
                                      returned |-> checked.returned])
    /\ UNCHANGED <<secrets, booth_tier, add_on_keys, event_year, discount_key, custom_total,
                   amount, pc, matcherVars, requestVars, bulkVars,
                   packageVars, now, logVars>>

\* the user submits the password field: its text is stored under the key
\* of the field and the callback password_entered runs
EnterPassword(text) ==
    /\ pc = "session"
    /\ Len(calls) < MaxAuthCalls
    /\ "password" \in DOMAIN session_state
    /\ session_state' = password_entered(DictSet(session_state, "password", text), secrets, now)
    /\ calls' = Append(calls, [op |-> "password_entered", at |-> now, entered |-> text])
    /\ UNCHANGED <<secrets, booth_tier, add_on_keys, event_year, discount_key, custom_total,
                   amount, result, pc, matcherVars, requestVars, bulkVars,
                   packageVars, now, logVars>>

\* AuthenticationManager.revoke_access
RevokeAccess ==
    /\ pc = "session"
    /\ Len(calls) < MaxAuthCalls
    /\ session_state' = revoke_access(session_state)
    /\ calls' = Append(calls, [op |-> "revoke_access", at |-> now])
    /\ UNCHANGED <<secrets, booth_tier, add_on_keys, event_year, discount_key, custom_total,
                   amount, result, pc, matcherVars, requestVars, bulkVars,
                   packageVars, now, logVars>>

\* hours pass between two calls
Tick(hours) ==
    /\ pc = "session"
    /\ now + hours <= MaxHours
    /\ now' = now + hours
    /\ UNCHANGED <<secrets, booth_tier, add_on_keys, event_year, discount_key, custom_total,
                   amount, result, pc, calls, matcherVars, requestVars, bulkVars,
                   packageVars, session_state, logVars>>

AuthInit ==
    /\ secrets \in {NoSecrets, SecretsWithPassword}
    /\ booth_tier = "(no booth)"
    /\ add_on_keys = <<>>
    /\ event_year = 2025
    /\ discount_key = "none"
    /\ custom_total = None
    /\ amount = 0
    /\ MatcherIdle /\ RequestsIdle /\ BulkIdle
    /\ PackageIdle /\ LogIdle
    /\ result = NoResult
    /\ calls = <<>>
    /\ pc = "session"
    /\ session_state = <<>>
    /\ now = 0

AuthNext ==
    \/ CheckPassword
    \/ \E text \in PasswordInputs : EnterPassword(text)
    \/ RevokeAccess
    \/ \E hours \in HourInputs : Tick(hours)

SpecAuth == AuthInit /\ [][AuthNext]_vars

(***************************************************************************)
(* SpecLog: one session writing to the audit log and reading it back.  The *)
(* clock `now' counts the calls of log_letter_generation, each entry       *)
(* taking the clock as its timestamp; a log that is not empty at the start *)
(* was written by that many earlier calls of the session.                  *)
(***************************************************************************)
MaxLogCalls == 3

Acme == <<"A","c","m","e">>
\* "B&B <Co>"
CompanyToSanitize == <<"B","&","B"," ","<","C","o",">">>
Lor == <<"L","O","R">>
Single == <<"s","i","n","g","l","e">>

\* log_letter_generation(company_name, meeting_name, "LOR", "standard_2d",
\* add_ons, 7500.0) as a session whose id is session_id calls it at `clock'
EntryOf(company_name, add_ons, user_role, session_id, clock) ==
    LogEntry(company_name, ALL_EVENTS[1].meeting_name, Lor, "standard_2d", add_ons,
             Dollars(7500), <<>>, Single, user_role, session_id, clock)

\* the entry the k-th earlier call of the session wrote
PrefillEntry(k) == EntryOf(Acme, <<>>, "Unknown", 0, k - 1)

PrefilledLetters == [k \in 1..LOGGING_CONFIG.max_entries |-> PrefillEntry(k)]

Prefill(n) == SubSeq(PrefilledLetters, 1, n)

LogStartSizes == {0, LOGGING_CONFIG.max_entries - 1, LOGGING_CONFIG.max_entries}

LogCallInputs ==
    {<<Acme, <<>>>>, <<CompanyToSanitize, <<"charging_stations">>>>, <<Acme, HugeAddOns>>}

LogLimitInputs == {0, 1, 2, LOGGING_CONFIG.max_entries + 1}

\* one call of AuditLogger.log_letter_generation
LogLetterGeneration(company_name, add_ons) ==
    /\ pc = "logging"
    /\ Len(calls) < MaxLogCalls
    /\ IF ~_check_file_size(log_file)
       THEN /\ result' = [returned |-> FALSE]
            /\ calls' = Append(calls, [op |-> "log_letter_generation", returned |-> FALSE])
            /\ UNCHANGED <<session_state, log_file>>
       ELSE LET ss == get_session_id(session_state, now)
                log_entry == EntryOf(company_name, add_ons, get_current_user_role(ss),
                                     ss["session_id"], now)
                log_data == AppendAndRotate(_load_log(log_file), log_entry)
            IN  /\ session_state' = ss
                /\ log_file' = _save_log(log_data)
                /\ result' = [returned |-> TRUE]
                /\ calls' = Append(calls, [op |-> "log_letter_generation", returned |-> TRUE,
                                           entry |-> log_entry])
    /\ now' = now + 1
    /\ UNCHANGED <<secrets, booth_tier, add_on_keys, event_year, discount_key, custom_total,
                   amount, pc, matcherVars, requestVars, bulkVars, packageVars>>

\* one call of AuditLogger.get_recent_logs
GetRecentLogs(lim) ==
    /\ pc = "logging"
    /\ result' = [recent |-> get_recent_logs(log_file, lim)]
    /\ limit' = lim
    /\ UNCHANGED <<secrets, booth_tier, add_on_keys, event_year, discount_key, custom_total,
                   amount, pc, calls, events, event_name, requestVars, bulkVars,
                   packageVars, authVars, logVars>>

LogInit ==
    /\ PricingIdle /\ RequestsIdle /\ BulkIdle /\ PackageIdle
    /\ events = ALL_EVENTS
    /\ event_name = <<>>
    /\ limit = 0
    /\ result = NoResult
    /\ calls = <<>>
    /\ pc = "logging"
    /\ now \in LogStartSizes
    /\ session_state = IF now = 0 THEN <<>> ELSE get_session_id(<<>>, 0)
    /\ log_file = IF now = 0 THEN None ELSE _save_log([letters |-> Prefill(now)])

LogNext ==
    \/ \E a \in LogCallInputs : LogLetterGeneration(a[1], a[2])
    \/ \E lim \in LogLimitInputs : GetRecentLogs(lim)

SpecLog == LogInit /\ [][LogNext]_vars

(***************************************************************************)
(* SpecLogRace: sessions of one server process calling                     *)
(* log_letter_generation of the one global audit_logger at the same time.  *)
(* A call is scheduled between its accesses to the log file: the size      *)
(* check, the load, the open and the dump of the save.                     *)
(***************************************************************************)
MaxLogThreads == 2

Apex == <<"A","p","e","x">>
Axis == <<"A","x","i","s">>
\* one company per session, names of the same length
RaceCompanies == <<Acme, Apex, Axis>>

\* a session that has not started its call
NewLogThread(company_name) ==
    [op |-> "log_letter_generation", pc |-> "start", company_name |-> company_name,
     session_state |-> <<>>, log_entry |-> None, log_data |-> None, returned |-> None]

\* the log files the calls start with: none, one or two small entries, one
\* entry that takes the file over max_file_size_mb
RaceStartFiles ==
    {None,
     _save_log([letters |-> Prefill(1)]),
     _save_log([letters |-> Prefill(2)]),
     _save_log([letters |-> <<EntryOf(Acme, HugeAddOns, "Unknown", 0, 0)>>])}

\* lines 68-91: the size check, and the entry made from the arguments and
\* from the session's own state
RaceCheckFileSize(t) ==
    /\ pc = "log_race"
    /\ threads[t].pc = "start"
    /\ IF ~_check_file_size(log_file)
       THEN threads' = [threads EXCEPT ![t].pc = "done", ![t].returned = Some(FALSE)]
       ELSE LET ss == get_session_id(threads[t].session_state, now)
                log_entry == EntryOf(threads[t].company_name, <<>>,
                                     get_current_user_role(ss), ss["session_id"], now)
            IN  threads' = [threads EXCEPT ![t].pc = "checked",
                                           ![t].session_state = ss,
                                           ![t].log_entry = Some(log_entry)]
    /\ UNCHANGED <<secrets, booth_tier, add_on_keys, event_year, discount_key, custom_total,
                   amount, result, pc, calls, matcherVars, lists, bulkVars, packageVars,
                   authVars, logVars>>

\* lines 94-101: the log is loaded, the entry appended and the log rotated
RaceLoadLog(t) ==
    /\ pc = "log_race"
    /\ threads[t].pc = "checked"
    /\ threads' = [threads EXCEPT
                     ![t].pc = "loaded",
                     ![t].log_data = Some(AppendAndRotate(_load_log(log_file),
                                                          threads[t].log_entry[1]))]
    /\ UNCHANGED <<secrets, booth_tier, add_on_keys, event_year, discount_key, custom_total,
                   amount, result, pc, calls, matcherVars, lists, bulkVars, packageVars,
                   authVars, logVars>>

\* line 232, in the call of line 104
RaceSaveOpen(t) ==
    /\ pc = "log_race"
    /\ threads[t].pc = "loaded"
    /\ log_file' = _save_logOpen(log_file)
    /\ threads' = [threads EXCEPT ![t].pc = "opened"]
    /\ UNCHANGED <<secrets, booth_tier, add_on_keys, event_year, discount_key, custom_total,
                   amount, result, pc, calls, matcherVars, lists, bulkVars, packageVars,
                   authVars>>

\* line 233, and the return of line 106
RaceSaveDump(t) ==
    /\ pc = "log_race"
    /\ threads[t].pc = "opened"
    /\ log_file' = _save_logDump(log_file, threads[t].log_data[1])
    /\ threads' = [threads EXCEPT ![t].pc = "done", ![t].returned = Some(TRUE)]
    /\ UNCHANGED <<secrets, booth_tier, add_on_keys, event_year, discount_key, custom_total,
                   amount, result, pc, calls, matcherVars, lists, bulkVars, packageVars,
                   authVars>>

LogRaceInit ==
    /\ PricingIdle /\ BulkIdle /\ PackageIdle
    /\ events = ALL_EVENTS
    /\ event_name = <<>>
    /\ limit = 0
    /\ result = NoResult
    /\ calls = <<>>
    /\ lists = <<>>
    /\ pc = "log_race"
    /\ session_state = <<>>
    /\ now = 1
    /\ log_file \in RaceStartFiles
    /\ \E n \in 2..MaxLogThreads :
          threads = [t \in 1..n |-> NewLogThread(RaceCompanies[t])]

LogRaceNext ==
    \E t \in 1..Len(threads) :
        \/ RaceCheckFileSize(t)
        \/ RaceLoadLog(t)
        \/ RaceSaveOpen(t)
        \/ RaceSaveDump(t)

SpecLogRace == LogRaceInit /\ [][LogRaceNext]_vars

(***************************************************************************)
(* Properties                                                              *)
(***************************************************************************)
Abs(x) == IF x < 0 THEN -x ELSE x

\* the keys of a list that the table knows, in order
RECURSIVE KnownKeys(_, _)
KnownKeys(table, keys) ==
    IF keys = <<>> THEN <<>>
    ELSE (IF Head(keys) \in DOMAIN table THEN <<Head(keys)>> ELSE <<>>)
         \o KnownKeys(table, Tail(keys))

\* a list without the repetitions of a key, first occurrences kept
RECURSIVE Distinct(_)
Distinct(keys) ==
    IF keys = <<>> THEN <<>>
    ELSE LET front == Distinct(SubSeq(keys, 1, Len(keys) - 1))
             last == keys[Len(keys)]
         IN  IF \E i \in 1..Len(front) : front[i] = last THEN front
             ELSE Append(front, last)

\* C1: every returned result has subtotal = booth_price + add_ons_total,
\* discount_amount = subtotal - final_total and rounded_total =
\* round_nearest_50(final_total); under a custom override rounded_total is
\* the rounding of the custom total.
C1_ResultRelations ==
    pc = "priced" =>
        /\ result.subtotal = result.booth_price + result.add_ons_total
        /\ result.discount_amount = result.subtotal - result.final_total
        /\ result.rounded_total = round_nearest_50(result.final_total)
        /\ (discount_key = "custom" /\ custom_total # None
              => result.rounded_total = round_nearest_50(custom_total[1]))

C1_Witness ==
    /\ pc = "priced"
    /\ discount_key = "custom"
    /\ custom_total = Some(Dollars(7525))
    /\ result.add_ons_total > 0
    /\ result.booth_price > 0
    /\ result.rounded_total = Dollars(7500)
    /\ result.discount_amount = result.subtotal - Dollars(7525)

\* C2: under each of the four standard discount keys final_total is exactly
\* subtotal times the multiplier (1.00, 0.90, 0.85, 0.80): nothing is
\* rounded before it is stored.
C2_DiscountExact ==
    pc = "priced" /\ discount_key \in {"none", "minus_10", "minus_15", "minus_20"} =>
        LET pct == CASE discount_key = "none" -> 100
                     [] discount_key = "minus_10" -> 90
                     [] discount_key = "minus_15" -> 85
                     [] discount_key = "minus_20" -> 80
        IN  result.final_total * 100 = result.subtotal * pct

C2_Witness ==
    /\ pc = "priced"
    /\ discount_key = "minus_15"
    /\ result.subtotal = Dollars(7500)
    /\ result.final_total = Dollars(6375)
    /\ result.rounded_total = Dollars(6400)

\* C3: with discount_key custom and a custom total X >= 0 (X = 0 included)
\* final_total = X whatever the booth, add-ons and year, and
\* discount_amount = subtotal - X, negative when X exceeds the subtotal.
C3_CustomOverride ==
    pc = "priced" /\ discount_key = "custom" /\ custom_total # None
                  /\ custom_total[1] >= 0 =>
        /\ result.final_total = custom_total[1]
        /\ result.discount_amount = result.subtotal - custom_total[1]
        /\ (custom_total[1] > result.subtotal => result.discount_amount < 0)

C3_Witness ==
    /\ pc = "priced"
    /\ discount_key = "custom"
    /\ custom_total = Some(Dollars(200000))
    /\ result.subtotal > 0
    /\ result.final_total = Dollars(200000)
    /\ result.discount_amount < 0

\* C4: round_nearest_50(a) is the multiple of 50 nearest to a, a multiple of
\* 50 is returned unchanged, and a value halfway between two multiples goes
\* to the one with the even quotient (7525 to 7500, 7575 to 7600).
C4_RoundHalfToEven ==
    pc = "rounded" =>
        /\ result.rounded % Dollars(50) = 0
        /\ Abs(result.rounded - amount) <= Dollars(25)
        /\ (amount % Dollars(50) = 0 => result.rounded = amount)
        /\ (amount % Dollars(50) = Dollars(25)
              => (result.rounded \div Dollars(50)) % 2 = 0)
        /\ (amount = Dollars(7525) => result.rounded = Dollars(7500))
        /\ (amount = Dollars(7575) => result.rounded = Dollars(7600))

C4_Witness ==
    /\ pc = "rounded"
    /\ amount = Dollars(7525)
    /\ result.rounded = Dollars(7500)

\* C5: an unknown key is priced at zero: "(no booth)" and a tier absent from
\* the booth table give booth_price = 0, and the add-on keys absent from the
\* year's table add nothing while the known keys of the list still count.
C5_UnknownKeysAreFree ==
    pc = "priced" =>
        LET table == get_add_ons_pricing(secrets, event_year)
            known == KnownKeys(table, add_on_keys)
        IN  /\ (booth_tier = "(no booth)" \/ booth_tier \notin DOMAIN get_booth_prices(secrets)
                  => result.booth_price = 0)
            /\ (known = <<>> => result.add_ons_total = 0)
            /\ result.add_ons_total =
                 calculate_pricing(secrets, booth_tier, known, event_year,
                                   discount_key, custom_total).add_ons_total
            /\ (add_on_keys = <<"unknown_addon", "email_banner">>
                  => result.add_ons_total = Dollars(2500))

C5_Witness ==
    /\ pc = "priced"
    /\ booth_tier = "unknown_tier"
    /\ add_on_keys = <<"unknown_addon", "email_banner">>
    /\ result.booth_price = 0
    /\ result.subtotal = Dollars(2500)

\* C6: the add-on keys are treated as a set: repeating a key in the list
\* does not change add_ons_total.
C6_DuplicatesChargedOnce ==
    pc = "priced" =>
        result.add_ons_total =
            calculate_pricing(secrets, booth_tier, Distinct(add_on_keys), event_year,
                              discount_key, custom_total).add_ons_total

\* C7: add-on prices come from the 2026 table when event_year = 2026 and from
\* the 2025 table for every other year; charging_stations is 2000 under the
\* 2025 table and 3000 under the 2026 table.
C7_YearSelectsTable ==
    pc = "priced" =>
        LET table == IF event_year = 2026 THEN get_add_ons_2026(secrets)
                     ELSE get_add_ons_2025(secrets)
        IN  /\ result.add_ons_total = AddOnsTotal(table, add_on_keys)
            /\ (add_on_keys = <<"charging_stations">> =>
                  result.add_ons_total =
                      IF event_year = 2026 THEN Dollars(3000) ELSE Dollars(2000))

C7_Witness ==
    /\ pc = "priced"
    /\ event_year = 2027
    /\ add_on_keys = <<"charging_stations">>
    /\ result.add_ons_total = Dollars(2000)

\* C8: for a tier T of the booth table, any year, no add-ons and no
\* discount, booth_price = P(T) and rounded_total = round_nearest_50(P(T)).
C8_BoothOnly ==
    pc = "priced" /\ booth_tier \in DOMAIN get_booth_prices(secrets)
                  /\ add_on_keys = <<>> /\ discount_key = "none" =>
        /\ result.booth_price = get_booth_prices(secrets)[booth_tier]
        /\ result.rounded_total = round_nearest_50(get_booth_prices(secrets)[booth_tier])

C8_Witness ==
    /\ pc = "priced"
    /\ booth_tier = "premier"
    /\ event_year = 2026
    /\ add_on_keys = <<>>
    /\ discount_key = "none"
    /\ result.booth_price = Dollars(15000)
    /\ result.rounded_total = Dollars(15000)

\* C9: standard_2d with program_ad_full and charging_stations under the 10%
\* discount gives 11500 / 10350 / 10350 for 2025 and 12500 / 11250 / 11250
\* for 2026 (subtotal / final_total / rounded_total).
C9_EndToEnd ==
    pc = "priced" /\ booth_tier = "standard_2d"
                  /\ add_on_keys = <<"program_ad_full", "charging_stations">>
                  /\ discount_key = "minus_10" =>
        /\ (event_year = 2025 =>
              /\ result.subtotal = Dollars(11500)
              /\ result.final_total = Dollars(10350)
              /\ result.rounded_total = Dollars(10350))
        /\ (event_year = 2026 =>
              /\ result.subtotal = Dollars(12500)
              /\ result.final_total = Dollars(11250)
              /\ result.rounded_total = Dollars(11250))

C9_Witness ==
    /\ pc = "priced"
    /\ booth_tier = "standard_2d"
    /\ add_on_keys = <<"program_ad_full", "charging_stations">>
    /\ discount_key = "minus_10"
    /\ event_year = 2026
    /\ result.rounded_total = Dollars(11250)

NameOf(i) == events[i].meeting_name
Blank(q) == \A k \in 1..Len(q) : q[k] \in Whitespace
Related(a, b) == In(a, b) \/ In(b, a)
First(S) == CHOOSE i \in S : \A j \in S : i <= j
WordsOf(s) == WordSet(Split(Lower(s)))
Common(q, i) == Cardinality(WordsOf(q) \cap WordsOf(NameOf(i)))

\* the events a stage may answer with
ExactHits(q) ==
    LET lowered == Lower(q)
    IN  {i \in 1..Len(events) : Related(lowered, Lower(NameOf(i)))}
NormalizedHits(q) ==
    LET normalized == _normalize_name(q)
    IN  {i \in 1..Len(events) : Related(normalized, _normalize_name(NameOf(i)))}
KeywordHits(q) ==
    LET shared == [i \in 1..Len(events) |-> Common(q, i)]
    IN  {i \in 1..Len(events) :
            shared[i] >= 3 /\ \A j \in 1..Len(events) : shared[j] <= shared[i]}

\* C13: the stages are tried in the order exact, normalized, keyword; the
\* answer comes from the first stage that finds an event and carries that
\* stage's confidence, whatever a later stage would have found; match_event
\* answers with an event of the same stage.
C13_StageOrder ==
    (pc \in {"matched", "matched_with_confidence"} /\ ~Blank(event_name)) =>
        LET e == ExactHits(event_name)
            n == NormalizedHits(event_name)
            k == KeywordHits(event_name)
            stage == IF e # {} THEN "exact"
                     ELSE IF n # {} THEN "normalized"
                     ELSE IF k # {} THEN "keyword" ELSE "none"
        IN  /\ pc = "matched_with_confidence" => result.confidence = stage
            /\ stage = "exact" => result.event # None /\ result.event[1] \in e
            /\ stage = "normalized" => result.event # None /\ result.event[1] \in n
            /\ stage = "keyword" => result.event # None /\ result.event[1] \in k
            /\ stage = "none" => result.event = None

\* an exact answer where stage 3 alone would have selected another event
C13_Witness ==
    /\ pc = "matched_with_confidence"
    /\ result.confidence = "exact"
    /\ KeywordHits(event_name) # {}
    /\ result.event[1] \notin KeywordHits(event_name)
    /\ result.event[1] \in ExactHits(event_name)

\* C14: stage 1 ignores case and answers with the first event of the
\* catalog whose name contains the query or is contained in it; it finds
\* nothing only when no event is so related, and a later event is never
\* preferred, however close its name is to the query.
C14_FirstInCatalogOrder ==
    (pc \in {"matched", "matched_with_confidence"} /\ ~Blank(event_name)) =>
        LET hits == ExactHits(event_name)
        IN  /\ hits # {} => result.event = Some(First(hits))
            /\ pc = "matched_with_confidence" =>
                   (result.confidence = "exact" <=> hits # {})

\* the first hit is answered although a later event has a shorter name that
\* contains the query too
C14_Witness ==
    /\ pc = "matched_with_confidence"
    /\ result.confidence = "exact"
    /\ In(Lower(event_name), Lower(NameOf(result.event[1])))
    /\ event_name # Lower(event_name)
    /\ \E j \in ExactHits(event_name) :
          /\ j > result.event[1]
          /\ Len(NameOf(j)) < Len(NameOf(result.event[1]))
          /\ In(Lower(event_name), Lower(NameOf(j)))

\* a normalized name is in lower case, has no en or em dash and has its
\* words separated by single spaces
NormalForm(n) ==
    /\ \A k \in 1..Len(n) : n[k] \notin DOMAIN UpperToLower \cup {EN_DASH, EM_DASH, "\t", "\n", "\r"}
    /\ n # <<>> => n[1] # " " /\ n[Len(n)] # " "
    /\ \A k \in 1..(Len(n) - 1) : ~(n[k] = " " /\ n[k + 1] = " ")

\* names and what the program makes of them
NormalizationExamples ==
    {<<QueryDashesAndSpaces,
       <<"2","0","2","6"," ","o","n","c","o","l","o","g","y"," ","c","l","i","n","i","c","a","l"," ","u","p","d","a","t","e","s"," ","-"," ","r","e","v","i","e","w"," ","a","n","d"," ","r","e","n","e","w"," ","s","e","d","o","n","a">> >>,
     <<QueryEnDash,
       <<"2","0","2","6"," ","o","n","c","o","l","o","g","y"," ","c","l","i","n","i","c","a","l"," ","u","p","d","a","t","e","s"," ","-"," ","r","e","v","i","e","w"," ","a","n","d"," ","r","e","n","e","w"," ","s","e","d","o","n","a">> >>,
     <<QueryBestOfAscoUpper,
       <<"2","0","2","6"," ","a","s","c","o"," ","d","i","r","e","c","t"," ","d","e","n","v","e","r">> >>,
     <<ALL_EVENTS[11].meeting_name,
       <<"2","0","2","5"," ","n","o","r","t","h","w","e","l","l"," ","p","r","a","c","t","i","c","e"," ","i","m","p","a","c","t","i","n","g"," ","s","c","i","e","n","c","e">> >>}

\* C15: stage 2 compares the normalized query with the normalized names
\* (lower case, en and em dash to hyphen, "best of asco" to "asco direct",
\* "best of" and "best" deleted, whitespace runs to one space) and answers
\* with the first event of the catalog related to the query; so a query
\* "Best of ASCO <place>" that stage 1 does not match is answered with the
\* event "ASCO Direct <place>" and confidence "normalized".
C15_NormalizedMatch ==
    (pc = "matched_with_confidence" /\ ~Blank(event_name)) =>
        LET hits == NormalizedHits(event_name)
        IN  /\ NormalForm(_normalize_name(event_name))
            /\ \A ex \in NormalizationExamples :
                   event_name = ex[1] => _normalize_name(event_name) = ex[2]
            /\ result.confidence = "normalized" <=>
                   (ExactHits(event_name) = {} /\ hits # {})
            /\ result.confidence = "normalized" => result.event = Some(First(hits))
            /\ \A i \in 1..Len(events) :
                   (/\ event_name = BestOfAsco(NameOf(i))
                    /\ event_name # NameOf(i)
                    /\ ExactHits(event_name) = {})
                   => result = [event |-> Some(i), confidence |-> "normalized"]

\* "2026 Best of ASCO Denver" and its like, answered with the ASCO Direct event
C15_Witness ==
    /\ pc = "matched_with_confidence"
    /\ result.confidence = "normalized"
    /\ \E i \in 1..Len(events) :
          /\ event_name = BestOfAsco(NameOf(i))
          /\ event_name # NameOf(i)
          /\ result.event = Some(i)

\* the answer of stage 3: the first of the events sharing the most words
\* with the query when that is at least 3 words, no event otherwise
KeywordAnswer(q) ==
    IF KeywordHits(q) # {}
    THEN [event |-> Some(First(KeywordHits(q))), confidence |-> "keyword"]
    ELSE [event |-> None, confidence |-> "none"]

\* the query shares exactly 3 words with event i and fewer with every other
OnlyThreeWith(q, i) ==
    /\ Common(q, i) = 3
    /\ \A j \in 1..Len(events) : j # i => Common(q, j) < 3

\* the query shares 2 words with some event and more with none
OnlyTwoWords(q) ==
    /\ \E i \in 1..Len(events) : Common(q, i) = 2
    /\ \A i \in 1..Len(events) : Common(q, i) <= 2

\* C16 as stated: stage 3 answers as above, and every query sharing exactly
\* 3 words with one event alone is answered with that event and "keyword",
\* every query sharing only 2 words with no event and "none".
C16_KeywordUnconditional ==
    (pc = "matched_with_confidence" /\ ~Blank(event_name)) =>
        /\ result.confidence \in {"keyword", "none"} => result = KeywordAnswer(event_name)
        /\ \A i \in 1..Len(events) :
               OnlyThreeWith(event_name, i) =>
                   result = [event |-> Some(i), confidence |-> "keyword"]
        /\ OnlyTwoWords(event_name) => result = [event |-> None, confidence |-> "none"]

\* C16: stage 3 answers with the first of the events sharing the most words
\* with the query when that is at least 3 words, with no event otherwise;
\* a query that stages 1 and 2 leave unmatched is answered with the event
\* and "keyword" when it shares exactly 3 words with that event alone, and
\* with no event and "none" when it shares only 2 words.
C16_KeywordFallback ==
    (pc = "matched_with_confidence" /\ ~Blank(event_name)) =>
        LET fallback == ExactHits(event_name) = {} /\ NormalizedHits(event_name) = {}
        IN  /\ result.confidence \in {"keyword", "none"} =>
                   fallback /\ result = KeywordAnswer(event_name)
            /\ fallback => result = KeywordAnswer(event_name)
            /\ \A i \in 1..Len(events) :
                   (fallback /\ OnlyThreeWith(event_name, i)) =>
                       result = [event |-> Some(i), confidence |-> "keyword"]
            /\ (fallback /\ OnlyTwoWords(event_name)) =>
                   result = [event |-> None, confidence |-> "none"]

\* a keyword answer for a query sharing exactly 3 words with one event alone
C16_Witness ==
    /\ pc = "matched_with_confidence"
    /\ result.confidence = "keyword"
    /\ OnlyThreeWith(event_name, result.event[1])

\* C17: an empty query and a query of whitespace only are answered with no
\* event (and confidence "none") by match_event and match_with_confidence
\* alike, whatever the stages would find for them.
C17_BlankQuery ==
    (pc \in {"matched", "matched_with_confidence"} /\ Blank(event_name)) =>
        /\ result.event = None
        /\ pc = "matched_with_confidence" => result.confidence = "none"

\* no event for a query of whitespace, for which stage 2 would find one
C17_Witness ==
    /\ pc = "matched_with_confidence"
    /\ event_name # <<>>
    /\ Blank(event_name)
    /\ result = [event |-> None, confidence |-> "none"]
    /\ NormalizedHits(event_name) # {}

\* C18: a query that is the full name of an event of the catalog is
\* answered with confidence "exact".
C18_CatalogNameIsExact ==
    (pc = "matched_with_confidence"
        /\ \E i \in 1..Len(events) : event_name = NameOf(i))
    => result.confidence = "exact"

\* the name of an event, answered with that event and "exact"
C18_Witness ==
    /\ pc = "matched_with_confidence"
    /\ \E i \in 1..Len(events) :
          /\ event_name = NameOf(i)
          /\ event_name # Lower(event_name)
          /\ result = [event |-> Some(i), confidence |-> "exact"]

\* shared words over all distinct words, as a fraction; no word, no score
Jaccard(q, i) ==
    IF WordsOf(q) = {} THEN <<0, 1>>
    ELSE <<Cardinality(WordsOf(q) \cap WordsOf(NameOf(i))),
           Cardinality(WordsOf(q) \cup WordsOf(NameOf(i)))>>

\* item x of a result list comes before item y: the higher score, and the
\* earlier event of the catalog when the scores are equal
RanksBefore(x, y) ==
    \/ x[2][1] * y[2][2] > y[2][1] * x[2][2]
    \/ x[2][1] * y[2][2] = y[2][1] * x[2][2] /\ x[1] < y[1]

\* C19: find_similar_events answers with events and their Jaccard scores,
\* only scores above 0 (so all in (0, 1]), in descending order of score and
\* in catalog order where scores are equal, at most limit of them, and
\* leaves out only what ranks behind all it answers with.
C19_SimilarEvents ==
    pc = "found_similar" =>
        LET r == result.similar
        IN  /\ Len(r) <= limit
            /\ \A k \in 1..Len(r) :
                   /\ r[k][1] \in 1..Len(events)
                   /\ r[k][2] = Jaccard(event_name, r[k][1])
                   /\ 0 < r[k][2][1] /\ r[k][2][1] <= r[k][2][2]
            /\ \A k \in 1..(Len(r) - 1) : RanksBefore(r[k], r[k + 1])
            /\ \A i \in 1..Len(events) :
                   (Jaccard(event_name, i)[1] > 0 /\ \A k \in 1..Len(r) : r[k][1] # i)
                   => /\ Len(r) = limit
                      /\ \A k \in 1..Len(r) : RanksBefore(r[k], <<i, Jaccard(event_name, i)>>)

\* a list cut at the limit, with two events of equal score in catalog order
C19_Witness ==
    /\ pc = "found_similar"
    /\ limit >= 2
    /\ Len(result.similar) = limit
    /\ result.similar[1][2] = result.similar[2][2]
    /\ result.similar[1][1] < result.similar[2][1]
    /\ result.similar[1][2][1] < result.similar[1][2][2]
    /\ \E i \in 1..Len(events) :
          /\ Jaccard(event_name, i)[1] > 0
          /\ \A k \in 1..Len(result.similar) : result.similar[k][1] # i

(***************************************************************************)
(* Properties of the bulk driver                                           *)
(***************************************************************************)
\* the name of a row is that of no event: no event name contains it or is
\* contained in it, as written or normalized, and none shares 3 words with it
Unmatched(name) ==
    LET lowered == Lower(name)
        normalized == normalize_name(name)
        words == WordsOf(name)
    IN  \A i \in 1..Len(EVENTS) :
            /\ ~Related(lowered, Lower(EVENTS[i].meeting_name))
            /\ ~Related(normalized, normalize_name(EVENTS[i].meeting_name))
            /\ Cardinality(words \cap WordsOf(EVENTS[i].meeting_name)) < 3

\* processing the row raises: its total is no number, or a document cannot be built
Raises(row) == ~FloatParses(StripMoney(row.total_str)) \/ row.build_raises

BadRow(row) == Unmatched(row.event_name) \/ Raises(row)

\* the rows among the first n that are bad
BadRows(n) == {k \in 1..n : BadRow(rows[k])}

\* C20: the rows are taken one by one, each once: after n rows every bad row
\* (no event for its name, or an exception) has left one error message,
\* numbered as the sheet numbers it, and no entry in the archive; every
\* other row has left its two documents and no message; the two counters
\* count these rows, and when the loop has ended they add up to the number
\* of rows.
C20_OneBadRowNeverBlocks ==
    pc \in {"bulk_loop", "bulk_done"} =>
        LET bad == BadRows(idx)
            good == (1..idx) \ bad
        IN  /\ idx \in 0..Len(rows)
            /\ pc = "bulk_done" => idx = Len(rows)
            /\ error_count = Cardinality(bad)
            /\ generated_count = Cardinality(good)
            /\ generated_count + error_count = idx
            /\ Len(errors) = error_count
            /\ \A k \in bad :
                   Cardinality({e \in 1..Len(errors) : errors[e].row = k + 1}) = 1
            /\ \A k \in good :
                   /\ \A e \in 1..Len(errors) : errors[e].row # k + 1
                   /\ \E e \in 1..(Len(zip_file) - 1) :
                          /\ zip_file[e].name[2] = safe_filename(rows[k].exhibitor_invite)
                          /\ zip_file[e + 1].name[2] = safe_filename(rows[k].exhibitor_invite)
                          /\ zip_file[e].name[3] = ".docx"
                          /\ zip_file[e + 1].name[3] = ".pdf"
            /\ Len(zip_file) = 2 * generated_count
            /\ \A e \in 1..Len(zip_file) :
                   \E k \in good :
                       zip_file[e].name[2] = safe_filename(rows[k].exhibitor_invite)

\* a sheet done whose first row was bad and whose last row got its documents
C20_Witness ==
    /\ pc = "bulk_done"
    /\ Len(rows) >= 2
    /\ BadRow(rows[1])
    /\ ~BadRow(rows[Len(rows)])
    /\ error_count >= 1
    /\ generated_count >= 1
    /\ generated_count + error_count = Len(rows)
    /\ Len(zip_file) = 2 * generated_count

(***************************************************************************)
(* Properties of concurrent requests and of held results                   *)
(***************************************************************************)
\* what a call returns when it runs alone on the catalog as configured
RunAlone(call) ==
    IF call.op = "calculate_pricing"
    THEN calculate_pricing(NoSecrets, call.args[1], call.args[2], call.args[3],
                           call.args[4], call.args[5])
    ELSE IF call.op = "match_event"
    THEN [event |-> match_event(ALL_EVENTS, call.args[1])]
    ELSE LET matched == match_with_confidence(ALL_EVENTS, call.args[1])
         IN  [event |-> matched[1], confidence |-> matched[2]]

AloneResults == [call \in ConcurrentCalls |-> RunAlone(call)]

\* C11: however the steps of concurrent calculate_pricing and matcher calls
\* interleave, the event list, the booth prices and the add-on tables stay
\* as configured, and a call that has returned has returned what it returns
\* when it runs alone.
C11_NoInterference ==
    pc = "concurrent" =>
        /\ events = ALL_EVENTS
        /\ secrets = NoSecrets
        /\ \A t \in DOMAIN threads :
               threads[t].pc = "done" => threads[t].result = AloneResults[threads[t].call]

\* a pricing call has returned while a matcher call, past two of its stages,
\* has not
C11_Witness ==
    /\ pc = "concurrent"
    /\ \E t, u \in DOMAIN threads :
          /\ threads[t].call.op = "calculate_pricing"
          /\ threads[t].pc = "done"
          /\ threads[t].result.rounded_total > 0
          /\ threads[u].call.op = "match_event"
          /\ threads[u].pc = "stage3"

\* C12 as stated: whatever callers do to the results they hold, the catalog
\* stays as configured, the list a caller passed in stays as it was passed,
\* and a result its caller has not touched stays as it was returned.
C12_ResultsAreOwned ==
    pc = "held" =>
        /\ events = ALL_EVENTS
        /\ \A h \in 1..Len(calls) :
               calls[h].op = "calculate_pricing" =>
                   lists[calls[h].args[2].ref] = calls[h].returned
        /\ \A h \in 1..Len(calls) :
               ~calls[h].changed => HeldValue(calls[h]) = calls[h].returned

(***************************************************************************)
(* Properties of multi-meeting packages                                    *)
(***************************************************************************)
\* the sum of the first n numbers of a list
RECURSIVE SumTo(_, _)
SumTo(numbers, n) == IF n = 0 THEN 0 ELSE SumTo(numbers, n - 1) + numbers[n]

Sum(numbers) == SumTo(numbers, Len(numbers))

\* the year of the catalog list an event belongs to; an event of neither
\* list is priced as a 2025 event
OwnYear(event) ==
    IF \E i \in 1..Len(EVENTS_2026) : EVENTS_2026[i].meeting_name = event.meeting_name
    THEN 2026 ELSE 2025

\* what the single-event engine charges for one configuration, undiscounted
PriceAlone(config) ==
    calculate_pricing(secrets,
                      IF "booth_tier" \in DOMAIN config THEN config.booth_tier ELSE "(no booth)",
                      IF "add_on_keys" \in DOMAIN config THEN config.add_on_keys ELSE <<>>,
                      OwnYear(config.event), "none", None)

\* C21: calculate_multi_meeting_pricing returns one breakdown entry per
\* configuration, in input order, each with event_total = booth_cost +
\* addon_cost where booth_cost and addon_cost are the booth price and the
\* add-on price of that event alone, the add-ons priced with the table of the
\* event's own year; total_booth_cost and total_addon_cost are the sums of
\* these over the configurations and final_total is the sum of the two
\* totals, neither discounted nor rounded.
C21_MultiMeetingTotals ==
    pc = "multi_priced" =>
        LET n == Len(events_configs)
            alone == [k \in 1..n |-> PriceAlone(events_configs[k])]
            entries == result.events_breakdown
        IN  /\ Len(entries) = n
            /\ \A k \in 1..n :
                  /\ entries[k].event_name = events_configs[k].event.meeting_name
                  /\ entries[k].booth_cost = alone[k].booth_price
                  /\ entries[k].addon_cost = alone[k].add_ons_total
                  /\ entries[k].event_total = alone[k].booth_price + alone[k].add_ons_total
            /\ result.total_booth_cost = Sum([k \in 1..n |-> alone[k].booth_price])
            /\ result.total_addon_cost = Sum([k \in 1..n |-> alone[k].add_ons_total])
            /\ result.final_total = Sum([k \in 1..n |-> alone[k].subtotal])

\* a 2025 and a 2026 event, both with a charging station (2000 and 3000),
\* have been priced to a total that is no multiple of 50
C21_Witness ==
    /\ pc = "multi_priced"
    /\ Len(events_configs) = 2
    /\ OwnYear(events_configs[1].event) = 2025
    /\ OwnYear(events_configs[2].event) = 2026
    /\ result.events_breakdown[1].addon_cost = Dollars(2000)
    /\ result.events_breakdown[2].addon_cost = Dollars(5500)
    /\ result.final_total = Dollars(25025)

\* C30: after any sequence of add_event calls on a package that started
\* empty (made by a caller one by one, or by create_package for each
\* configuration), total_booth_cost is the sum of the booth_price of the
\* stored events, total_addon_cost the sum of their addon_cost, final_total
\* the sum of the two totals, and get_event_count the number of calls.
C30_PackageTotals ==
    pc \in {"add_event", "package_created"} =>
        LET n == Len(package.events)
        IN  /\ package.total_booth_cost = Sum([k \in 1..n |-> package.events[k].booth_price])
            /\ package.total_addon_cost = Sum([k \in 1..n |-> package.events[k].addon_cost])
            /\ package.final_total = package.total_booth_cost + package.total_addon_cost
            /\ get_event_count(package) =
                  IF pc = "add_event" THEN Len(calls) ELSE Len(events_configs)

\* three events have been added, one of them a dict that came with a
\* "booth_price" of its own
C30_Witness ==
    /\ pc = "add_event"
    /\ Len(calls) = 3
    /\ \E k \in 1..3 : "booth_price" \in DOMAIN calls[k].args[1]
    /\ get_event_count(package) = 3
    /\ package.final_total > 0

(***************************************************************************)
(* Properties of the bulk driver's row matching                            *)
(***************************************************************************)
\* C22: for the same catalog and the same event-name string, the matching
\* done inside the bulk generation loop selects the event that
\* EventMatcher.match_event selects, or none when match_event selects none.
C22_BulkMatchesAsMatcher ==
    pc = "row_matched" => result.event = match_event(events, event_name)

(***************************************************************************)
(* Properties of the password gate                                         *)
(***************************************************************************)
\* the passwords the deployment accepts
ConfiguredPasswords ==
    {IF "password" \in DOMAIN secrets THEN secrets["password"] ELSE "",
     IF "sarah_password" \in DOMAIN secrets THEN secrets["sarah_password"] ELSE "Sarah2025!",
     IF "allison_password" \in DOMAIN secrets THEN secrets["allison_password"] ELSE "Allison2025"}

\* the positions before k of the history where a password was entered
EntriesBefore(k) == {i \in 1..(k - 1) : calls[i].op = "password_entered"}

\* the greatest number of a set of numbers
Last(S) == CHOOSE i \in S : \A j \in S : j <= i

\* C23: in every session, a check_password that returns True comes after a
\* password entry; the most recent entry before it matched a configured
\* password, revoke_access was not called between that entry and the check,
\* and at most 48 hours passed from the entry to the check.  So a check that
\* returns True after one that returned False has a matching password entry
\* between the two.
C23_AccessNeedsFreshPassword ==
    pc = "session" =>
        \A k \in 1..Len(calls) :
            (calls[k].op = "check_password" /\ calls[k].returned) =>
                /\ EntriesBefore(k) # {}
                /\ LET e == Last(EntriesBefore(k))
                   IN  /\ calls[e].entered \in ConfiguredPasswords
                       /\ \A r \in (e + 1)..(k - 1) : calls[r].op # "revoke_access"
                       /\ calls[k].at - calls[e].at <= 48
                /\ \A j \in 1..(k - 1) :
                      (calls[j].op = "check_password" /\ ~calls[j].returned) =>
                          \E e \in (j + 1)..(k - 1) :
                              /\ calls[e].op = "password_entered"
                              /\ calls[e].entered \in ConfiguredPasswords

\* a password was accepted, 48 hours later access was still granted, one
\* hour later it was denied
C23_Witness ==
    /\ pc = "session"
    /\ Len(calls) = 4
    /\ calls[1].op = "check_password" /\ ~calls[1].returned
    /\ calls[2].op = "password_entered" /\ calls[2].entered \in ConfiguredPasswords
    /\ calls[3].op = "check_password" /\ calls[3].returned /\ calls[3].at - calls[2].at = 48
    /\ calls[4].op = "check_password" /\ ~calls[4].returned /\ calls[4].at - calls[2].at > 48

(***************************************************************************)
(* Properties of the audit log                                             *)
(***************************************************************************)
\* the entries of the calls of the history that returned True, in order
RECURSIVE LoggedBy(_, _)
LoggedBy(history, n) ==
    IF n = 0 THEN <<>>
    ELSE LoggedBy(history, n - 1)
         \o (IF history[n].returned THEN <<history[n].entry>> ELSE <<>>)

\* every entry the session has logged, the earlier calls' entries first
Logged == Prefill(now - Len(calls)) \o LoggedBy(calls, Len(calls))

\* the last n elements of a list, all of it when it has fewer
LastOf(s, n) == IF Len(s) <= n THEN s ELSE SubSeq(s, Len(s) - n + 1, Len(s))

\* C24: after any sequence of log_letter_generation calls the stored log has
\* at most 500 entries, and they are the most recently logged entries in the
\* order they were logged (of a call that returned False nothing is logged).
C24_LogKeepsNewest ==
    pc = "logging" =>
        LET letters == IF log_file = None THEN <<>> ELSE log_file[1].letters
        IN  /\ Len(letters) <= 500
            /\ letters = LastOf(Logged, 500)

\* a log of 500 entries has taken two more: the two oldest are gone
C24_Witness ==
    /\ pc = "logging"
    /\ Len(Logged) = 502
    /\ Len(log_file[1].letters) = 500
    /\ log_file[1].letters[1].timestamp = 2
    /\ log_file[1].letters[500].timestamp = 501

\* C25: for every log and every limit >= 0, limit = 0 included,
\* get_recent_logs(limit) returns at most limit entries, the most recently
\* logged ones, newest first.
C25_RecentLogsAtMostLimit ==
    (pc = "logging" /\ "recent" \in DOMAIN result) =>
        LET letters == IF log_file = None THEN <<>> ELSE log_file[1].letters
        IN  /\ Len(result.recent) <= limit
            /\ result.recent = Reversed(LastOf(letters, limit))

(***************************************************************************)
(* Further properties of the pricing engine and of the event matcher       *)
(***************************************************************************)
\* C26: a call whose discount_key is "custom" without a custom total, or is
\* none of the known discount keys, returns a result, priced as with no
\* discount: final_total = subtotal and discount_amount = 0.
C26_NoDiscountWhenUnknown ==
    (/\ pc = "priced"
     /\ \/ discount_key = "custom" /\ custom_total = None
        \/ discount_key \notin {"none", "minus_10", "minus_15", "minus_20", "custom"})
    => /\ result.final_total = result.subtotal
       /\ result.discount_amount = 0
       /\ result.rounded_total = round_nearest_50(result.subtotal)

\* a booth with add-ons was priced under "custom" without a custom total
C26_Witness ==
    /\ pc = "priced"
    /\ discount_key = "custom"
    /\ custom_total = None
    /\ booth_tier = "standard_2d"
    /\ Len(add_on_keys) = 2
    /\ result.subtotal > Dollars(7500)
    /\ result.final_total = result.subtotal

\* C27: the names of the catalog are pairwise distinct, and a query that is
\* the name of an event of the catalog is answered with that very event by
\* match_event and by match_with_confidence: no earlier event whose name
\* contains it or is contained in it is answered in its place.
C27_CatalogNamesMatchThemselves ==
    /\ \A i, j \in 1..Len(events) : i # j => NameOf(i) # NameOf(j)
    /\ pc \in {"matched", "matched_with_confidence"} =>
          \A i \in 1..Len(events) :
              event_name = NameOf(i) => result.event = Some(i)

\* match_event asked for the name of the last event of the catalog, after
\* every other event has been compared with it, answers with that event
C27_Witness ==
    /\ pc = "matched"
    /\ Len(events) = Len(EVENTS_2025) + Len(EVENTS_2026)
    /\ event_name = NameOf(Len(events))
    /\ result.event = Some(Len(events))

\* C28: match_event and match_with_confidence agree on every query: the
\* event of the one is the event of the other, it is an event of the catalog
\* or absent, and the confidence is "none" exactly when it is absent.
C28_MatchersAgree ==
    /\ pc = "matched" =>
          LET m == match_with_confidence(events, event_name)
          IN  /\ result.event = m[1]
              /\ result.event = None \/ result.event[1] \in 1..Len(events)
              /\ m[2] = "none" <=> result.event = None
    /\ pc = "matched_with_confidence" =>
          /\ result.event = match_event(events, event_name)
          /\ result.event = None \/ result.event[1] \in 1..Len(events)
          /\ result.confidence = "none" <=> result.event = None

\* match_event answers with an event that match_with_confidence finds at its
\* normalized stage, for a query that stage 1 leaves unmatched
C28_Witness ==
    /\ pc = "matched"
    /\ result.event # None
    /\ ExactHits(event_name) = {}
    /\ match_with_confidence(events, event_name) = <<result.event, "normalized">>

(***************************************************************************)
(* Properties of concurrent writes to the audit log                        *)
(***************************************************************************)
\* C29: when two sessions have called log_letter_generation at the same
\* time on a log below max_entries and both calls have returned True, the
\* log holds the entries of both.
C29_NoEntryLost ==
    \A s, t \in 1..Len(threads) :
        (/\ pc = "log_race"
         /\ s # t
         /\ threads[s].pc = "done" /\ threads[s].returned = Some(TRUE)
         /\ threads[t].pc = "done" /\ threads[t].returned = Some(TRUE))
        => LET letters == get_all_logs(log_file)
           IN  /\ \E i \in 1..Len(letters) : letters[i] = threads[s].log_entry[1]
               /\ \E i \in 1..Len(letters) : letters[i] = threads[t].log_entry[1]

====
